---- MODULE Spec2Model ----
(***************************************************************************)
(* Model of memorypool::boost_intrusive_pool<Item>                          *)
(* (include/boost_intrusive_pool.hpp): the pool wrapper, its reference      *)
(* counted control block (impl), the arenas, the free list threaded        *)
(* through the item envelopes, and the intrusive handles held by callers.  *)
(*                                                                         *)
(* Pointers are modelled as indexes: 0 is nullptr; a control block is a     *)
(* number in ImplIds; an item is a number in ItemIds local to the control  *)
(* block whose arenas store it (arenas are laid out one after the other).  *)
(***************************************************************************)
EXTENDS Integers, Sequences, FiniteSets

\* ---------------------------------------------------------------- bounds
\* number of control blocks a run may create (init() plus clear() calls)
MaxImpls == 2
\* number of items the arenas of one control block may hold altogether
MaxItems == 3
\* number of handles the caller holds at one time, on all items together
MaxHeld == 2

ImplIds == 1..MaxImpls
ItemIds == 1..MaxItems

RecycleMethods == {"RECYCLE_METHOD_NONE", "RECYCLE_METHOD_DESTROY_FUNCTION",
                   "RECYCLE_METHOD_CUSTOM_FUNCTION"}

AllocateVariants == {"allocate", "allocate_through_init", "allocate_through_function"}

VARIABLES
    poolAlive,   \* the boost_intrusive_pool object exists (not yet destructed)
    m_pool,      \* boost_intrusive_pool::m_pool: 0 or the current control block
    impls,       \* ImplIds -> the control block (impl) with the items it stores
    nImpls,      \* control blocks created so far (the next one is nImpls + 1)
    handles,     \* ImplIds -> ItemIds -> handles the caller holds on the item
    held,        \* handles the caller holds altogether
    failed,      \* "none", or the assertion / fault that stopped the program
    owed,        \* successful allocations minus runs of the recycle action
    args         \* the arguments init() was called with (NoArgs without pool)

vars == <<poolAlive, m_pool, impls, nImpls, handles, held, failed, owed, args>>

NoRun == "-"
NoArgs == [init_size |-> 0, enlarge_size |-> 0, max_size |-> 0]
NoFault == "none"

\* ------------------------------------------------------- item envelope
\* boost_intrusive_pool_item::boost_intrusive_pool_item(), and value for the
\* data of the class derived from it (m_int of the tests' DummyInt)
NewItem == [refcount |-> 0, next |-> 0, owner |-> 0, value |-> 0]

\* the control block before "new impl" and the memory it will occupy
NoImpl ==
    [life |-> "unborn", refs |-> 0,
     m_recycle_method |-> "RECYCLE_METHOD_NONE",
     m_enlarge_step |-> 0, m_max_size |-> 0,
     m_first_free_item |-> 0, arenas |-> <<>>, linked |-> <<>>,
     m_memory_exhausted |-> FALSE, m_trigger_self_destruction |-> FALSE,
     m_free_count |-> 0, m_inuse_count |-> 0, m_total_count |-> 0,
     items |-> [i \in ItemIds |-> NewItem],
     created |-> 0, deleted |-> 0, m_count |-> 0, m_allowed_thread |-> 0]

\* impl::impl(enlarge_size, max_size, method, recycle); the intrusive_ptr made
\* from the new object holds the first reference
impl_ctor(enlarge_size, max_size, method) ==
    [NoImpl EXCEPT !.life = "alive", !.refs = 1,
                   !.m_recycle_method = method,
                   !.m_enlarge_step = enlarge_size,
                   !.m_max_size = max_size]

RECURSIVE SumSeq(_)
SumSeq(s) == IF s = <<>> THEN 0 ELSE Head(s) + SumSeq(Tail(s))

\* items stored by the arenas of a control block (m_storage of every arena)
Stored(S) == 1..SumSeq(S.arenas)

\* m_first_arena / m_last_arena as arena numbers (0 is nullptr)
m_first_arena(S) == IF S.arenas = <<>> THEN 0 ELSE 1
m_last_arena(S) == Len(S.arenas)

\* a faulty variant of impl::clear() that frees the storage of the arenas with
\* no destructor of an item run
impl_clear_destructs_nothing(S) ==
    [S EXCEPT !.deleted = @ + Len(S.arenas),
              !.items = [i \in DOMAIN S.items |-> NewItem],
              !.m_first_free_item = 0, !.arenas = <<>>, !.linked = <<>>,
              !.m_memory_exhausted = FALSE,
              !.m_free_count = 0, !.m_inuse_count = 0, !.m_total_count = 0]

\* impl::clear(): delete every arena of the chain, reset status and stats.
\* delete[] m_storage destructs the items: m_count, the objects of Item that
\* were constructed and not destructed (the tests' dummy_one::m_count), goes
\* down by the size of each arena.
impl_clear(S) ==
    [S EXCEPT !.deleted = @ + Len(S.arenas),
              !.m_count = @ - SumSeq(S.arenas),
              !.items = [i \in DOMAIN S.items |-> NewItem],
              !.m_first_free_item = 0, !.arenas = <<>>, !.linked = <<>>,
              !.m_memory_exhausted = FALSE,
              !.m_free_count = 0, !.m_inuse_count = 0, !.m_total_count = 0]

\* impl::~impl(), then the release of the object's memory: nothing of the
\* control block is left but the record of what was created and deleted
impl_dtor(S) ==
    LET C == impl_clear(S)
    IN [NoImpl EXCEPT !.life = "destroyed", !.created = C.created, !.deleted = C.deleted,
                      !.m_count = C.m_count]

\* intrusive_ptr_release(boost_intrusive_pool_iface*) of
\* boost::intrusive_ref_counter: the last reference deletes the control block
iface_release(S) ==
    IF S.refs = 1 THEN impl_dtor([S EXCEPT !.refs = 0])
    ELSE [S EXCEPT !.refs = @ - 1]

\* boost_intrusive_pool_item::_refcounted_item_set_pool(p) on item i of S,
\* p being 0 or self: the assignment to the intrusive_ptr member takes a
\* reference on the new control block and releases the old one
set_pool(S, self, i, p) ==
    LET old == S.items[i].owner
        S1 == [S EXCEPT !.items[i].owner = p,
                        !.refs = IF p = self THEN @ + 1 ELSE @]
    IN IF old = self THEN iface_release(S1) ELSE S1

\* a faulty variant of the arena constructor that does not link the items
arena_ctor_unlinked(S, self, arena_size) ==
    LET base == SumSeq(S.arenas)
    IN [S EXCEPT
          !.items = [i \in DOMAIN S.items |->
                       IF i > base /\ i <= base + arena_size
                       THEN [refcount |-> 0, next |-> 0, owner |-> self, value |-> 0]
                       ELSE S.items[i]],
          !.refs = @ + arena_size,
          !.m_count = @ + arena_size,
          !.arenas = Append(@, arena_size),
          !.linked = Append(@, FALSE),
          !.created = @ + 1]

\* boost_intrusive_pool_arena::boost_intrusive_pool_arena(arena_size, p): the
\* new arena stores items base+1 .. base+arena_size, each linked to the next
\* one, the last to nullptr, each holding a reference to the pool
arena_ctor(S, self, arena_size) ==
    LET base == SumSeq(S.arenas)
    IN [S EXCEPT
          !.items = [i \in DOMAIN S.items |->
                       IF i > base /\ i <= base + arena_size
                       THEN [refcount |-> 0,
                             next |-> IF i < base + arena_size THEN i + 1 ELSE 0,
                             owner |-> self, value |-> 0]
                       ELSE S.items[i]],
          !.refs = @ + arena_size,
          !.m_count = @ + arena_size,
          !.arenas = Append(@, arena_size),
          !.linked = Append(@, FALSE),
          !.created = @ + 1]

\* a faulty variant of set_next_arena that links the items and leaves
\* m_next_arena of the last arena null
set_next_arena_items_only(S, last, first_new) ==
    [S EXCEPT !.items[SumSeq(SubSeq(S.arenas, 1, last))].next = first_new]

\* boost_intrusive_pool_arena::set_next_arena(p) on the last arena of S, before
\* the new arena (whose first item is first_new) becomes the last one
set_next_arena(S, last, first_new) ==
    [S EXCEPT !.linked[last] = TRUE,
              !.items[SumSeq(SubSeq(S.arenas, 1, last))].next = first_new]

\* ------------------------------------------------------ impl: getters
is_bounded(S) == S.m_enlarge_step = 0
is_memory_exhausted(S) == S.m_memory_exhausted
capacity(S) == S.m_total_count
unused_count(S) == S.m_free_count
inuse_count(S) == S.m_inuse_count
empty(S) == S.m_free_count = S.m_total_count
\* impl::enlarge_steps_done(): walks the arena chain and counts the arenas
enlarge_steps_done(S) == Len(S.arenas)

\* a faulty variant that takes an enlarge step of zero for "grow by one"
effective_step_never_zero(S) ==
    IF S.m_enlarge_step = 0 THEN 1
    ELSE IF S.m_max_size > 0 /\ S.m_total_count + S.m_enlarge_step > S.m_max_size
    THEN S.m_max_size - S.m_total_count
    ELSE S.m_enlarge_step

\* a faulty variant that does not look at m_max_size
effective_step_unclamped(S) == S.m_enlarge_step

\* a faulty variant that takes a max size of 0 for a budget of no items
effective_step_zero_max_is_limit(S) ==
    IF S.m_enlarge_step > 0 /\ S.m_total_count + S.m_enlarge_step > S.m_max_size
    THEN IF S.m_max_size > S.m_total_count THEN S.m_max_size - S.m_total_count ELSE 0
    ELSE S.m_enlarge_step

\* a faulty variant that grows by the current capacity (doubling)
effective_step_doubles(S) ==
    IF S.m_enlarge_step > 0 /\ S.m_total_count > 0 THEN S.m_total_count
    ELSE S.m_enlarge_step

\* a faulty variant that takes whole steps only: no step when a whole one
\* would pass the max size
effective_step_whole_only(S) ==
    IF S.m_enlarge_step > 0
       /\ (S.m_max_size > 0 /\ S.m_total_count + S.m_enlarge_step > S.m_max_size)
    THEN 0
    ELSE S.m_enlarge_step

\* a faulty variant that takes all that is left under the max size at once
effective_step_whole_budget(S) ==
    IF S.m_enlarge_step > 0 /\ S.m_max_size > 0
    THEN S.m_max_size - S.m_total_count
    ELSE S.m_enlarge_step

\* impl::get_effective_enlarge_step()
get_effective_enlarge_step(S) ==
    IF S.m_enlarge_step > 0
       /\ (S.m_max_size > 0 /\ S.m_total_count + S.m_enlarge_step > S.m_max_size)
    THEN S.m_max_size - S.m_total_count
    ELSE S.m_enlarge_step

\* the model gives a control block room for Len(S.items) items (MaxItems in
\* Spec): an enlarge() that
\* needs more is outside the model (the calling action is not taken)
Fits(S, arena_size) == SumSeq(S.arenas) + arena_size <= Len(S.items)

\* impl::enlarge(arena_size): a new arena is appended to the chain and its
\* items to the free list; "new" does not return nullptr, so the result is true
enlarge(S, self, arena_size) ==
    LET base == SumSeq(S.arenas)
        last == m_last_arena(S)
        A == arena_ctor(S, self, arena_size)
        L == IF last # 0 THEN set_next_arena(A, last, base + 1) ELSE A
        F == IF L.m_first_free_item = 0
             THEN [L EXCEPT !.m_first_free_item = base + 1] ELSE L
    IN IF arena_size <= 0
       THEN [S |-> S, ok |-> FALSE, fault |-> "arena: assert(arena_size > 0 && p)"]
       ELSE IF last # 0 /\ S.linked[last]
       THEN [S |-> S, ok |-> FALSE, fault |-> "set_next_arena: assert(!m_next_arena && p)"]
       ELSE [S |-> [F EXCEPT !.m_free_count = @ + arena_size,
                             !.m_total_count = @ + arena_size],
             ok |-> TRUE, fault |-> NoFault]

\* a faulty variant that leaves the returned item linked to the free list
unlink_item_skipped(S, item) == S

\* impl::allocate_safe_get_recycled_item(), last statement before the return:
\* recycled_item->_refcounted_item_set_next(nullptr)
unlink_item(S, item) == [S EXCEPT !.items[item].next = 0]

\* a faulty variant of the pop that does not grow ahead when it took the last
\* free item
allocate_pop_without_growth(S, self) ==
    LET item == S.m_first_free_item
        P == [S EXCEPT !.m_free_count = @ - 1,
                       !.m_inuse_count = @ + 1,
                       !.m_first_free_item = S.items[item].next]
    IN IF item = 0
       THEN [S |-> S, item |-> 0, fits |-> TRUE,
             fault |-> "allocate: assert(m_first_free_item != nullptr)"]
       ELSE [S |-> unlink_item(P, item), item |-> item, fits |-> TRUE,
             fault |-> NoFault]

\* impl::allocate_safe_get_recycled_item(), second half: pop the head of the
\* free list, grow ahead when that emptied the list, unlink the popped item
allocate_pop(S, self) ==
    LET item == S.m_first_free_item
        P == [S EXCEPT !.m_free_count = @ - 1,
                       !.m_inuse_count = @ + 1,
                       !.m_first_free_item = S.items[item].next]
        ahead == P.m_first_free_item = 0 /\ P.m_enlarge_step > 0
        step == get_effective_enlarge_step(P)
        E == IF ahead /\ step # 0 /\ Fits(P, step)
             THEN enlarge(P, self, step)
             ELSE [S |-> IF ahead /\ step = 0
                         THEN [P EXCEPT !.m_memory_exhausted = TRUE] ELSE P,
                   ok |-> TRUE, fault |-> NoFault]
        G == IF E.ok THEN E.S ELSE [E.S EXCEPT !.m_memory_exhausted = TRUE]
    IN IF item = 0
       THEN [S |-> S, item |-> 0, fits |-> TRUE,
             fault |-> "allocate: assert(m_first_free_item != nullptr)"]
       ELSE IF S.items[item].owner # self
       THEN [S |-> S, item |-> 0, fits |-> TRUE,
             fault |-> "allocate: assert(recycled_item->_refcounted_item_get_pool().get() == this)"]
       ELSE IF ahead /\ step # 0 /\ P.m_free_count # 0
       THEN [S |-> P, item |-> 0, fits |-> TRUE,
             fault |-> "allocate: assert(m_free_count == 0)"]
       ELSE IF ahead /\ step # 0 /\ ~Fits(P, step)
       THEN [S |-> S, item |-> 0, fits |-> FALSE, fault |-> NoFault]
       ELSE IF E.fault # NoFault
       THEN [S |-> E.S, item |-> 0, fits |-> TRUE, fault |-> E.fault]
       ELSE [S |-> unlink_item(G, item),
             item |-> item, fits |-> TRUE, fault |-> NoFault]

\* impl::allocate_safe_get_recycled_item(), first half, taken when the free
\* list is empty: grow by the effective step, or report exhaustion
allocate_grow(S, self) ==
    LET step == get_effective_enlarge_step(S)
        E == IF step # 0 /\ Fits(S, step)
             THEN enlarge(S, self, step)
             ELSE [S |-> S, ok |-> FALSE, fault |-> NoFault]
    IN IF S.m_first_free_item # 0
       THEN [S |-> S, item |-> 0, fits |-> TRUE,
             fault |-> "allocate: assert(m_first_free_item == nullptr)"]
       ELSE IF step # 0 /\ ~Fits(S, step)
       THEN [S |-> S, item |-> 0, fits |-> FALSE, fault |-> NoFault]
       ELSE IF E.fault # NoFault
       THEN [S |-> E.S, item |-> 0, fits |-> TRUE, fault |-> E.fault]
       ELSE IF step = 0 \/ ~E.ok
       THEN [S |-> [S EXCEPT !.m_memory_exhausted = TRUE],
             item |-> 0, fits |-> TRUE, fault |-> NoFault]
       ELSE allocate_pop(E.S, self)

\* a faulty variant that keeps refusing once m_memory_exhausted is set
allocate_refuses_once_exhausted(S, self) ==
    IF S.m_memory_exhausted
    THEN [S |-> S, item |-> 0, fits |-> TRUE, fault |-> NoFault]
    ELSE IF S.m_free_count # 0 THEN allocate_pop(S, self) ELSE allocate_grow(S, self)

\* impl::allocate_safe_get_recycled_item(): the result is the item (0 for
\* nullptr), the control block afterwards, and the assertion that failed if any
allocate_safe_get_recycled_item(S, self) ==
    IF S.m_free_count # 0 THEN allocate_pop(S, self) ELSE allocate_grow(S, self)

\* a faulty variant of the switch that has no case for the custom function
recycle_action_skips_custom(S) ==
    IF S.m_recycle_method = "RECYCLE_METHOD_CUSTOM_FUNCTION"
    THEN NoRun ELSE S.m_recycle_method

\* impl::recycle(), the switch on m_recycle_method: the recycle action that runs
\* on the item (nothing to do, Item::destroy(), or the custom function)
recycle_action(S) == S.m_recycle_method

\* a faulty variant of the stats update that forgets m_inuse_count--
recycle_push_keeps_inuse(S, i) ==
    [S EXCEPT !.items[i].next = S.m_first_free_item,
              !.m_first_free_item = i,
              !.m_free_count = @ + 1]

\* a faulty variant of the free-list update that walks to the end of the free
\* list and appends the item there
recycle_push_at_tail(S, i) ==
    LET tails == {j \in Stored(S) \ {i} :
                     S.items[j].refcount = 0 /\ S.items[j].next = 0}
    IN IF S.m_first_free_item = 0 \/ tails = {}
       THEN [S EXCEPT !.m_first_free_item = i,
                      !.m_free_count = @ + 1, !.m_inuse_count = @ - 1]
       ELSE [S EXCEPT !.items[CHOOSE j \in tails : TRUE].next = i,
                      !.m_free_count = @ + 1, !.m_inuse_count = @ - 1]

\* a faulty variant of the free-list update that makes the item the head
\* without linking it to the old head
recycle_push_loses_list(S, i) ==
    [S EXCEPT !.m_first_free_item = i,
              !.m_free_count = @ + 1,
              !.m_inuse_count = @ - 1]

\* impl::recycle(), the stats and free-list update: the item becomes the head
\* of the free list
recycle_push(S, i) ==
    [S EXCEPT !.items[i].next = S.m_first_free_item,
              !.m_first_free_item = i,
              !.m_free_count = @ + 1,
              !.m_inuse_count = @ - 1]

\* a faulty variant of the test for self destruction that leaves the link
\* between the recycled item and its control block in place
recycle_orphan_keeps_link(S, self, i) == S

\* a faulty variant of the test for self destruction that breaks the link
\* between the recycled item and its control block at every recycle
recycle_orphan_always(S, self, i) == set_pool(S, self, i, 0)

\* impl::recycle(), the test for self destruction: a control block without pool
\* object drops the item's reference to itself, and the last such drop
\* deletes the control block
recycle_orphan(S, self, i) ==
    IF S.m_trigger_self_destruction THEN set_pool(S, self, i, 0) ELSE S

\* impl::recycle(pitem_base): the result is the control block afterwards, the
\* recycle action that ran (NoRun when an assertion stopped the program before
\* the switch), and the assertion that failed if any
recycle(S, self, i) ==
    LET run == recycle_action(S)
    IN IF S.items[i].next # 0
       THEN [S |-> S, run |-> NoRun,
             fault |-> "recycle: assert(pitem_base->_refcounted_item_get_next() == nullptr)"]
       ELSE IF S.items[i].owner # self
       THEN [S |-> S, run |-> NoRun,
             fault |-> "recycle: assert(pitem_base->_refcounted_item_get_pool().get() == this)"]
       ELSE IF ~is_bounded(S) /\ ~(S.m_first_free_item # 0 \/ S.m_memory_exhausted)
       THEN [S |-> S, run |-> run,
             fault |-> "recycle: assert(m_first_free_item != nullptr || m_memory_exhausted)"]
       ELSE IF S.m_inuse_count <= 0
       THEN [S |-> S, run |-> run, fault |-> "recycle: assert(m_inuse_count > 0)"]
       ELSE [S |-> recycle_orphan(recycle_push(S, i), self, i),
             run |-> run, fault |-> NoFault]

\* the walk of impl::trigger_self_destruction() from pcurr on: every item of
\* the free list drops its reference to the control block. fuel bounds the
\* walk by the number of items there are.
RECURSIVE self_destruction_walk(_, _, _, _)
self_destruction_walk(S, self, pcurr, fuel) ==
    IF pcurr = 0 \/ fuel = 0 THEN S
    ELSE self_destruction_walk(set_pool(S, self, pcurr, 0), self,
                               S.items[pcurr].next, fuel - 1)

\* a faulty variant of the self destruction that deletes the arenas at once,
\* as impl::clear() does
self_destruction_clears(S, self) ==
    impl_clear([S EXCEPT !.m_trigger_self_destruction = TRUE])

\* a faulty variant of the self destruction that walks the items of the
\* arenas, not the free list, and so unlinks the items in use as well
self_destruction_unlinks_all(S, self) ==
    [S EXCEPT !.m_trigger_self_destruction = TRUE,
              !.items = [i \in DOMAIN S.items |-> [S.items[i] EXCEPT !.owner = 0]],
              !.refs = @ - Cardinality({i \in Stored(S) : S.items[i].owner = self})]

\* a faulty variant of the self destruction that unlinks the head of the free
\* list and does not walk on
self_destruction_head_only(S, self) ==
    IF S.m_first_free_item = 0
    THEN [S EXCEPT !.m_trigger_self_destruction = TRUE]
    ELSE set_pool([S EXCEPT !.m_trigger_self_destruction = TRUE],
                  self, S.m_first_free_item, 0)

\* impl::trigger_self_destruction()
trigger_self_destruction(S, self) ==
    self_destruction_walk([S EXCEPT !.m_trigger_self_destruction = TRUE],
                          self, S.m_first_free_item, Len(S.items))

\* impl::set_recycle_method(method, recycle)
impl_set_recycle_method(S, method) == [S EXCEPT !.m_recycle_method = method]

\* ------------------------------------------------ item: reference counting
\* a faulty variant that counts a new reference as one more item in use
add_ref_counts_in_use(S, i) ==
    [S EXCEPT !.items[i].refcount = @ + 1, !.m_inuse_count = @ + 1]

\* intrusive_ptr_add_ref(boost_intrusive_pool_item* x)
intrusive_ptr_add_ref(S, i) == [S EXCEPT !.items[i].refcount = @ + 1]

\* a faulty variant of the release that recycles the item at every drop
release_recycles_every_drop(S, i) ==
    LET D == [S EXCEPT !.items[i].refcount = @ - 1]
    IN IF D.items[i].owner # 0
       THEN recycle(D, D.items[i].owner, i)
       ELSE [S |-> D, run |-> NoRun, fault |-> "delete x: the item is stored in an arena"]

\* intrusive_ptr_release(boost_intrusive_pool_item* x): the drop of the last
\* reference recycles the item into the pool that owns it; an item without
\* owner is deleted as a heap object, which an item of an arena is not
intrusive_ptr_release(S, i) ==
    LET D == [S EXCEPT !.items[i].refcount = @ - 1]
    IN IF D.items[i].refcount # 0
       THEN [S |-> D, run |-> NoRun, fault |-> NoFault]
       ELSE IF D.items[i].owner # 0
       THEN recycle(D, D.items[i].owner, i)
       ELSE [S |-> D, run |-> NoRun, fault |-> "delete x: the item is stored in an arena"]

\* --------------------------------------------- boost_intrusive_pool: getters
\* the public getters answer for the current control block, 0 / false without
Current == impls[m_pool]
pool_capacity == IF m_pool # 0 THEN capacity(Current) ELSE 0
pool_unused_count == IF m_pool # 0 THEN unused_count(Current) ELSE 0
pool_inuse_count == IF m_pool # 0 THEN inuse_count(Current) ELSE 0
pool_enlarge_steps_done == IF m_pool # 0 THEN enlarge_steps_done(Current) ELSE 0
pool_is_memory_exhausted == IF m_pool # 0 THEN is_memory_exhausted(Current) ELSE FALSE
pool_is_bounded == IF m_pool # 0 THEN is_bounded(Current) ELSE FALSE
pool_empty == IF m_pool # 0 THEN empty(Current) ELSE TRUE

\* ------------------------------------------------------------- the program
\* boost_intrusive_pool::boost_intrusive_pool(): an uninitialized pool
Init ==
    /\ poolAlive = TRUE
    /\ m_pool = 0
    /\ impls = [p \in ImplIds |-> NoImpl]
    /\ nImpls = 0
    /\ handles = [p \in ImplIds |-> [i \in ItemIds |-> 0]]
    /\ held = 0
    /\ failed = NoFault
    /\ owed = 0
    /\ args = NoArgs

\* a failed assertion aborts the program: the process and every object of it
\* are gone, what is left is the assertion that failed
Abort(what) ==
    /\ failed' = what
    /\ poolAlive' = FALSE
    /\ m_pool' = 0
    /\ impls' = [p \in ImplIds |-> NoImpl]
    /\ nImpls' = 0
    /\ handles' = [p \in ImplIds |-> [i \in ItemIds |-> 0]]
    /\ held' = 0
    /\ owed' = 0
    /\ args' = NoArgs

\* a faulty variant of the precondition without the assertion on max_size
init_precondition_ignores_max(init_size, enlarge_size, max_size) ==
    IF m_pool # 0 THEN "init: assert(m_pool == nullptr)"
    ELSE IF ~(init_size > 0) THEN "init: assert(init_size > 0)"
    ELSE NoFault

\* the precondition of boost_intrusive_pool::init(), NoFault when it holds
init_precondition(init_size, enlarge_size, max_size) ==
    IF m_pool # 0 THEN "init: assert(m_pool == nullptr)"
    ELSE IF ~(init_size > 0) THEN "init: assert(init_size > 0)"
    ELSE IF ~(max_size = 0 \/ (max_size >= init_size /\ enlarge_size > 0))
    THEN "init: assert(max_size == NO_MAX_SIZE || (max_size >= init_size && enlarge_size > 0))"
    ELSE NoFault

\* a faulty variant of init() that constructs the pool state without its
\* initial arena
PoolInitLazy(init_size, enlarge_size, max_size, method) ==
    /\ failed = NoFault /\ poolAlive
    /\ LET pre == init_precondition(init_size, enlarge_size, max_size)
           self == nImpls + 1
       IN IF pre # NoFault THEN Abort(pre)
          ELSE /\ self \in ImplIds
               /\ m_pool' = self
               /\ nImpls' = self
               /\ impls' = [impls EXCEPT
                              ![self] = impl_ctor(enlarge_size, max_size, method)]
               /\ args' = [init_size |-> init_size, enlarge_size |-> enlarge_size,
                           max_size |-> max_size]
               /\ UNCHANGED <<poolAlive, handles, held, owed, failed>>

\* boost_intrusive_pool::init(init_size, enlarge_size, max_size, recycle_method),
\* also the constructor that takes these arguments
PoolInit(init_size, enlarge_size, max_size, method) ==
    /\ failed = NoFault /\ poolAlive
    /\ LET pre == init_precondition(init_size, enlarge_size, max_size)
           self == nImpls + 1
           E == enlarge(impl_ctor(enlarge_size, max_size, method), self, init_size)
       IN IF pre # NoFault THEN Abort(pre)
          ELSE /\ self \in ImplIds
               /\ Fits(NoImpl, init_size)
               /\ m_pool' = self
               /\ nImpls' = self
               /\ impls' = [impls EXCEPT ![self] = E.S]
               /\ failed' = E.fault
               /\ args' = [init_size |-> init_size, enlarge_size |-> enlarge_size,
                           max_size |-> max_size]
               /\ UNCHANGED <<poolAlive, handles, held, owed>>

\* boost_intrusive_pool::set_recycle_method(method, recycle_fn)
SetRecycleMethod(method) ==
    /\ failed = NoFault /\ poolAlive
    /\ IF m_pool = 0 THEN Abort("set_recycle_method: assert(m_pool)")
       ELSE /\ impls' = [impls EXCEPT ![m_pool] = impl_set_recycle_method(@, method)]
            /\ UNCHANGED <<poolAlive, m_pool, nImpls, handles, held, failed, owed, args>>

\* what allocate / allocate_through_init / allocate_through_function do with the
\* item they got before they wrap it in a handle: nothing, item.init(args), or
\* fn(item) followed by the re-stamping of the pool in the item
allocate_prepare(S, self, item, variant) ==
    IF variant = "allocate_through_function" THEN set_pool(S, self, item, self) ELSE S

\* the routine an allocate variant runs on the item it got: none for allocate,
\* Item::init(args) for allocate_through_init, the caller's fn for
\* allocate_through_function
allocate_routine(variant) ==
    IF variant = "allocate_through_init" THEN "init"
    ELSE IF variant = "allocate_through_function" THEN "fn"
    ELSE NoRun

\* a faulty variant that runs the routine before it looks at the item it got
allocate_finish_runs_routine_first(R, self, variant) ==
    IF R.fault # NoFault \/ R.item = 0
    THEN [S |-> R.S, item |-> 0, called |-> allocate_routine(variant)]
    ELSE [S |-> intrusive_ptr_add_ref(
                    allocate_prepare(R.S, self, R.item, variant), R.item),
          item |-> R.item, called |-> allocate_routine(variant)]

\* boost_intrusive_pool::allocate(), allocate_through_init(args),
\* allocate_through_function(fn), after allocate_safe_get_recycled_item()
\* returned R: nullptr is handed on, an item is prepared and wrapped in a
\* handle (item_ptr's constructor adds the reference). called is the routine
\* that ran on the item.
allocate_finish(R, self, variant) ==
    IF R.fault # NoFault \/ R.item = 0
    THEN [S |-> R.S, item |-> 0, called |-> NoRun]
    ELSE [S |-> intrusive_ptr_add_ref(
                    allocate_prepare(R.S, self, R.item, variant), R.item),
          item |-> R.item, called |-> allocate_routine(variant)]

\* boost_intrusive_pool::allocate(), allocate_through_init(args),
\* allocate_through_function(fn)
Allocate(variant) ==
    /\ failed = NoFault /\ poolAlive
    /\ IF m_pool = 0 THEN Abort("allocate: assert(m_pool)")
       ELSE \E R \in {allocate_safe_get_recycled_item(Current, m_pool)} :
            \E A \in {allocate_finish(R, m_pool, variant)} :
               /\ R.fits
               /\ IF R.fault # NoFault THEN Abort(R.fault)
                  ELSE IF A.item = 0
                  THEN /\ impls' = [impls EXCEPT ![m_pool] = A.S]
                       /\ UNCHANGED <<poolAlive, m_pool, nImpls, handles, held, failed, owed, args>>
                  ELSE /\ held < MaxHeld
                       /\ impls' = [impls EXCEPT ![m_pool] = A.S]
                       /\ handles' = [handles EXCEPT ![m_pool][A.item] = @ + 1]
                       /\ held' = held + 1
                       /\ owed' = owed + 1
                       /\ UNCHANGED <<poolAlive, m_pool, nImpls, failed, args>>

\* the caller copies a handle it holds: boost::intrusive_ptr copy construction
CopyHandle(p, i) ==
    /\ failed = NoFault
    /\ handles[p][i] > 0 /\ held < MaxHeld
    /\ impls' = [impls EXCEPT ![p] = intrusive_ptr_add_ref(@, i)]
    /\ handles' = [handles EXCEPT ![p][i] = @ + 1]
    /\ held' = held + 1
    /\ UNCHANGED <<poolAlive, m_pool, nImpls, failed, owed, args>>

\* the caller drops a handle it holds: boost::intrusive_ptr destruction. A
\* handle into storage that was deleted is a use of freed memory.
DropHandle(p, i) ==
    /\ failed = NoFault
    /\ handles[p][i] > 0
    /\ IF impls[p].life # "alive" \/ i \notin Stored(impls[p])
       THEN Abort("use of an item whose arena was deleted")
       ELSE \E R \in {intrusive_ptr_release(impls[p], i)} :
               IF R.fault # NoFault THEN Abort(R.fault)
               ELSE /\ impls' = [impls EXCEPT ![p] = R.S]
                    /\ handles' = [handles EXCEPT ![p][i] = @ - 1]
                    /\ held' = held - 1
                    /\ owed' = IF R.run = NoRun THEN owed ELSE owed - 1
                    /\ UNCHANGED <<poolAlive, m_pool, nImpls, failed, args>>

\* a faulty variant of clear() that marks the current control block for self
\* destruction and goes on using it, with no new control block
ClearKeepsControlBlock ==
    /\ failed = NoFault /\ poolAlive
    /\ IF m_pool = 0
       THEN UNCHANGED impls
       ELSE impls' = [impls EXCEPT ![m_pool] = trigger_self_destruction(@, m_pool)]
    /\ UNCHANGED <<m_pool, nImpls, poolAlive, handles, held, failed, owed, args>>

\* a faulty variant of clear() that gives the new control block of a bounded
\* pool the size of the old first arena as its enlarge step
ClearMakesGrowable ==
    /\ failed = NoFault /\ poolAlive
    /\ IF m_pool = 0
       THEN UNCHANGED <<m_pool, impls, nImpls>>
       ELSE LET old == Current
                self == nImpls + 1
                step == IF old.m_enlarge_step = 0 /\ old.arenas # <<>>
                        THEN old.arenas[1] ELSE old.m_enlarge_step
            IN /\ self \in ImplIds
               /\ impls' = [impls EXCEPT
                     ![m_pool] = iface_release(trigger_self_destruction(old, m_pool)),
                     ![self] = impl_ctor(step, old.m_max_size, old.m_recycle_method)]
               /\ m_pool' = self
               /\ nImpls' = self
    /\ UNCHANGED <<poolAlive, handles, held, failed, owed, args>>

\* a faulty variant of clear() that adds its local init_size (a copy of the
\* enlarge step) to the enlarge step of the new control block
ClearAddsInitSize ==
    /\ failed = NoFault /\ poolAlive
    /\ IF m_pool = 0
       THEN UNCHANGED <<m_pool, impls, nImpls>>
       ELSE LET old == Current
                self == nImpls + 1
            IN /\ self \in DOMAIN impls
               /\ impls' = [impls EXCEPT
                     ![m_pool] = iface_release(trigger_self_destruction(old, m_pool)),
                     ![self] = impl_ctor(old.m_enlarge_step + old.m_enlarge_step,
                                         old.m_max_size, old.m_recycle_method)]
               /\ m_pool' = self
               /\ nImpls' = self
    /\ UNCHANGED <<poolAlive, handles, held, failed, owed, args>>

\* a faulty variant of clear() that grows the new control block by the enlarge
\* step at once (the init_size local of clear() put to use)
ClearRegrows ==
    /\ failed = NoFault /\ poolAlive
    /\ IF m_pool = 0
       THEN UNCHANGED <<m_pool, impls, nImpls>>
       ELSE LET old == Current
                self == nImpls + 1
                N == impl_ctor(old.m_enlarge_step, old.m_max_size, old.m_recycle_method)
            IN /\ self \in ImplIds
               /\ impls' = [impls EXCEPT
                     ![m_pool] = iface_release(trigger_self_destruction(old, m_pool)),
                     ![self] = IF old.m_enlarge_step > 0
                               THEN enlarge(N, self, old.m_enlarge_step).S ELSE N]
               /\ m_pool' = self
               /\ nImpls' = self
    /\ UNCHANGED <<poolAlive, handles, held, failed, owed, args>>

\* boost_intrusive_pool::clear(): the current control block is marked for self
\* destruction and released, a new one with the same configuration and no
\* arena takes its place
Clear ==
    /\ failed = NoFault /\ poolAlive
    /\ IF m_pool = 0
       THEN UNCHANGED <<m_pool, impls, nImpls>>
       ELSE LET old == Current
                self == nImpls + 1
            IN /\ self \in DOMAIN impls
               /\ impls' = [impls EXCEPT
                     ![m_pool] = iface_release(trigger_self_destruction(old, m_pool)),
                     ![self] = impl_ctor(old.m_enlarge_step, old.m_max_size,
                                         old.m_recycle_method)]
               /\ m_pool' = self
               /\ nImpls' = self
    /\ UNCHANGED <<poolAlive, handles, held, failed, owed, args>>

\* boost_intrusive_pool::~boost_intrusive_pool(), then the destruction of the
\* member m_pool
Destroy ==
    /\ failed = NoFault /\ poolAlive
    /\ poolAlive' = FALSE
    /\ m_pool' = 0
    /\ impls' = IF m_pool = 0 THEN impls
                ELSE [impls EXCEPT
                        ![m_pool] = iface_release(trigger_self_destruction(@, m_pool))]
    /\ args' = NoArgs
    /\ UNCHANGED <<nImpls, handles, held, failed, owed>>

\* the arguments of init() the model tries, among them the ones init() rejects
InitSizes == {0, 1, 2}
EnlargeSizes == {0, 1, 2}
InitArgs ==
    IF m_pool # 0
    THEN {[init_size |-> 1, enlarge_size |-> 0, max_size |-> 0,
           method |-> "RECYCLE_METHOD_NONE"]}
    ELSE [init_size : InitSizes, enlarge_size : EnlargeSizes,
          max_size : 0..MaxItems, method : RecycleMethods]

Next ==
    \/ \E a \in InitArgs :
          PoolInit(a.init_size, a.enlarge_size, a.max_size, a.method)
    \/ \E method \in RecycleMethods : SetRecycleMethod(method)
    \/ \E variant \in AllocateVariants : Allocate(variant)
    \/ \E p \in ImplIds, i \in ItemIds : CopyHandle(p, i)
    \/ \E p \in ImplIds, i \in ItemIds : DropHandle(p, i)
    \/ Clear
    \/ Destroy

Spec == Init /\ [][Next]_vars

\* ------------------------------------------------------------------ helpers
\* the free list of a control block: the items reached from m_first_free_item
\* by following the next pointers of the envelopes
RECURSIVE free_list_walk(_, _, _)
free_list_walk(S, pcurr, fuel) ==
    IF pcurr = 0 \/ fuel = 0 THEN {}
    ELSE {pcurr} \cup free_list_walk(S, S.items[pcurr].next, fuel - 1)

FreeList(S) == free_list_walk(S, S.m_first_free_item, Len(S.items))

\* the objects of control block p the caller holds at least one handle to
LiveItems(p) == {i \in ItemIds : handles[p][i] > 0}

\* the program runs (no assertion stopped it) and the pool is initialized
Initialized == failed = NoFault /\ poolAlive /\ m_pool # 0

\* ------------------------------------------------------------------- claims

\* C1: after every public operation on an initialized pool (construction, any
\* allocate variant, handle copy or drop, growth, clear),
\* unused_count() + inuse_count() == capacity().
Conservation ==
    Initialized => pool_unused_count + pool_inuse_count = pool_capacity

\* C1, the case: a pool that has grown, with items in use and items unused
ConservationAfterGrowth ==
    /\ Initialized
    /\ pool_enlarge_steps_done >= 2
    /\ pool_inuse_count > 0
    /\ pool_unused_count > 0

ReleasedWhenUnused ==
    (failed = NoFault /\ ~poolAlive) =>
        \A p \in 1..nImpls :
            IF LiveItems(p) = {}
            THEN /\ impls[p].life = "destroyed"
                 /\ impls[p].deleted = impls[p].created
            ELSE /\ impls[p].life = "alive"
                 /\ impls[p].deleted = 0

\* C3, in every step: what was released stays released, nothing is deleted a
\* second time
ReleasedOnce ==
    failed' = NoFault =>
        \A p \in ImplIds :
            impls[p].life = "destroyed" =>
                /\ impls'[p].life = "destroyed"
                /\ impls'[p].deleted = impls[p].deleted

\* C3: once the pool object is destroyed, all arenas of its pool state are
\* released exactly once, at the moment its in-use count is zero: at the
\* destruction when no handle is outstanding, otherwise during the drop of the
\* last outstanding handle; once every handle is dropped nothing is leaked.
ArenasReleasedExactlyOnce == []ReleasedWhenUnused /\ [][ReleasedOnce]_vars

\* C3, the case: the pool is destroyed, every handle dropped, and the arenas
\* (two of them) the control block created are deleted
AllArenasReleased ==
    /\ failed = NoFault
    /\ ~poolAlive
    /\ held = 0
    /\ \E p \in ImplIds : impls[p].life = "destroyed" /\ impls[p].created >= 2
                          /\ impls[p].deleted = impls[p].created

\* C4, in every state: an item with a live handle is not on the free list, and
\* an allocate call does not return it
LiveItemNotFree ==
    failed = NoFault =>
        /\ \A p \in ImplIds : LiveItems(p) \cap FreeList(impls[p]) = {}
        /\ Initialized =>
              allocate_safe_get_recycled_item(Current, m_pool).item \notin LiveItems(m_pool)

\* C4, in every step: an item of an arena goes on the free list only when its
\* reference count drops from 1 to 0
FreeOnlyAtLastDrop ==
    \A p \in ImplIds :
        impls'[p] # impls[p] =>
            \A i \in (FreeList(impls'[p]) \ FreeList(impls[p])) \cap Stored(impls[p]) :
                /\ impls[p].items[i].refcount = 1
                /\ impls'[p].items[i].refcount = 0

\* C4: while at least one handle to a pooled item is live, the item is not on
\* the free list and no allocate call returns it; the item goes back on the
\* free list only when its reference count drops from 1 to 0.
LiveItemsStayAllocated == []LiveItemNotFree /\ [][FreeOnlyAtLastDrop]_vars

\* C4, the case: item 2 was recycled and heads the free list while the handle
\* to item 1, allocated before it, is still live
RecycledBesideLiveItem ==
    /\ failed = NoFault
    /\ \E p \in ImplIds : /\ handles[p][1] > 0
                          /\ impls[p].items[1].refcount = handles[p][1]
                          /\ impls[p].m_first_free_item = 2
                          /\ impls[p].items[2].next = 3

\* C5: allocating N objects and dropping all their handles runs the recycle
\* action exactly N times (the allocations not yet matched by a run of the
\* recycle action are the objects with a live handle, so a non-last drop runs
\* nothing), and with no handle left the free list holds every slot again and
\* inuse_count() is 0.
RecycledOncePerLifetime ==
    failed = NoFault =>
        /\ owed = Cardinality({x \in ImplIds \X ItemIds : handles[x[1]][x[2]] > 0})
        /\ (Initialized /\ LiveItems(m_pool) = {}) =>
              /\ pool_inuse_count = 0
              /\ pool_unused_count = pool_capacity
              /\ FreeList(Current) = Stored(Current)

\* C5, the case: two objects were allocated and their handles dropped, first
\* object first, so the free list is headed by item 2 with item 1 behind it
TwoAllocatedTwoRecycled ==
    /\ Initialized
    /\ held = 0 /\ owed = 0
    /\ pool_inuse_count = 0
    /\ Current.m_first_free_item = 2
    /\ Current.items[2].next = 1

\* C6 as stated: with growth step 0 and initial capacity C, after C successful
\* allocations the next allocate returns an empty handle, and capacity() == C
\* forever (the pool never grows, enlarge_steps_done() stays 1).
BoundedCapacityForever ==
    (Initialized /\ args.enlarge_size = 0) =>
        /\ pool_capacity = args.init_size
        /\ pool_enlarge_steps_done = 1
        /\ pool_inuse_count = args.init_size =>
              allocate_safe_get_recycled_item(Current, m_pool).item = 0

\* C6 as the code has it: with growth step 0 and initial capacity C, until
\* clear() is called capacity() == C and enlarge_steps_done() == 1; after
\* clear() capacity() == 0 and enlarge_steps_done() == 0; in both cases an
\* allocate with every slot in use returns an empty handle and changes neither.
\* m_pool = 1 is the control block init() made, a later one was made by clear().
BoundedNeverGrows ==
    (Initialized /\ args.enlarge_size = 0) =>
        /\ pool_is_bounded
        /\ IF m_pool = 1
           THEN pool_capacity = args.init_size /\ pool_enlarge_steps_done = 1
           ELSE pool_capacity = 0 /\ pool_enlarge_steps_done = 0
        /\ pool_inuse_count = pool_capacity =>
              LET R == allocate_safe_get_recycled_item(Current, m_pool)
              IN /\ R.item = 0
                 /\ R.fault = NoFault
                 /\ capacity(R.S) = pool_capacity
                 /\ enlarge_steps_done(R.S) = pool_enlarge_steps_done

\* C6, the case: a bounded pool of two items, both in use, that has refused
\* an allocation
BoundedPoolExhausted ==
    /\ Initialized
    /\ args.enlarge_size = 0 /\ args.init_size = 2
    /\ pool_inuse_count = 2
    /\ pool_is_memory_exhausted

\* C7: for a pool with growth step S > 0 and max size M, capacity() never
\* exceeds M; an arena made by a growth step holds at most S items, and fewer
\* than S only when it is the last one and capacity() landed exactly on M.
MaxSizeRespected ==
    failed = NoFault =>
        \A p \in ImplIds :
            LET S == impls[p]
            IN (S.life = "alive" /\ S.m_enlarge_step > 0 /\ S.m_max_size > 0) =>
                  /\ capacity(S) <= S.m_max_size
                  /\ capacity(S) = SumSeq(S.arenas)
                  /\ \A k \in 2..Len(S.arenas) :
                        /\ S.arenas[k] <= S.m_enlarge_step
                        /\ S.arenas[k] < S.m_enlarge_step =>
                              k = Len(S.arenas) /\ capacity(S) = S.m_max_size

\* C7, the case: the last growth step made an arena smaller than the growth
\* step and the capacity is the max size
LastStepLandsOnMax ==
    /\ Initialized
    /\ Current.m_enlarge_step > 0 /\ Current.m_max_size > 0
    /\ pool_enlarge_steps_done >= 2
    /\ Current.arenas[Len(Current.arenas)] < Current.m_enlarge_step
    /\ pool_capacity = Current.m_max_size

\* C8, in every step on an unbounded pool still at the capacity C it was
\* pre-grown to: when the in-use count after the step is <= C, the step grew
\* nothing
NoGrowthWithinCapacity ==
    (/\ Initialized /\ m_pool' = m_pool /\ failed' = NoFault /\ poolAlive'
     /\ args.enlarge_size > 0 /\ args.max_size = 0
     /\ pool_capacity = args.init_size /\ pool_enlarge_steps_done = 1
     /\ pool_inuse_count' <= args.init_size)
    => /\ pool_capacity' = pool_capacity
       /\ pool_enlarge_steps_done' = pool_enlarge_steps_done

\* C8: for an unbounded pool pre-grown to capacity C, any sequence of
\* allocate/recycle operations that keeps the in-use count <= C at all times
\* performs no additional arena growth: enlarge_steps_done() and capacity()
\* stay constant.
ZeroMallocAfterWarmUp == [][NoGrowthWithinCapacity]_vars

\* C9, in every step that recycles an item into a bounded, fully allocated pool
\* whose exhaustion was forced: is_memory_exhausted() is false afterwards
FlagClearedByRecycle ==
    (/\ Initialized /\ m_pool' = m_pool /\ failed' = NoFault /\ poolAlive'
     /\ pool_is_bounded
     /\ pool_is_memory_exhausted
     /\ pool_inuse_count = pool_capacity
     /\ pool_unused_count' = pool_unused_count + 1)
    => ~pool_is_memory_exhausted'

\* C9: after exhaustion has been forced on a fully allocated bounded pool (an
\* allocate returned empty), recycling one item makes is_memory_exhausted()
\* report false.
ExhaustionFlagClears == [][FlagClearedByRecycle]_vars

\* C10: exhaustion is recoverable: on a pool that cannot grow, whenever a slot
\* is free (an item was recycled), whatever allocations failed before, allocate
\* succeeds and returns a valid item, one of the arenas that nobody holds.
ExhaustionRecoverable ==
    (Initialized /\ get_effective_enlarge_step(Current) = 0 /\ pool_unused_count > 0) =>
        LET R == allocate_safe_get_recycled_item(Current, m_pool)
        IN /\ R.fault = NoFault
           /\ R.item \in Stored(Current)
           /\ R.item \notin LiveItems(m_pool)
           /\ inuse_count(R.S) = pool_inuse_count + 1

\* C10, the case: a bounded pool that refused an allocation and then got an
\* item back
FreeSlotAfterExhaustion ==
    /\ Initialized
    /\ pool_is_bounded
    /\ pool_is_memory_exhausted
    /\ pool_unused_count > 0

\* the pool has no free slot and cannot grow
CannotAllocate ==
    Initialized /\ pool_unused_count = 0 /\ get_effective_enlarge_step(Current) = 0

\* C11: an allocate call of any variant on a pool that has no free slot and
\* cannot grow returns an empty handle, sets the exhausted flag, leaves
\* capacity(), unused_count(), inuse_count(), the free list and the arena chain
\* (the whole control block but the flag) unchanged, and runs neither the
\* item's init routine nor the caller's function.
FailedAllocateChangesNothing ==
    CannotAllocate =>
        \A variant \in AllocateVariants :
            LET R == allocate_safe_get_recycled_item(Current, m_pool)
                A == allocate_finish(R, m_pool, variant)
            IN /\ R.fault = NoFault /\ R.fits
               /\ A.item = 0
               /\ A.called = NoRun
               /\ is_memory_exhausted(A.S)
               /\ A.S = [Current EXCEPT !.m_memory_exhausted = TRUE]

\* C11, the case: a bounded pool of one item, the item in use, after an
\* allocate call was refused (on a bounded pool nothing else sets the flag)
RefusedOnFullPool ==
    /\ CannotAllocate
    /\ pool_is_bounded
    /\ pool_capacity = 1 /\ pool_inuse_count = 1
    /\ LiveItems(m_pool) = {1}
    /\ pool_is_memory_exhausted

\* the pool grows without limit: growth step > 0 and no max size
Unlimited == Initialized /\ Current.m_enlarge_step > 0 /\ Current.m_max_size = 0

\* C12: for an unbounded pool without max size (the allocation of an arena
\* never failing), in every reachable state is_memory_exhausted() is false and
\* an allocate call of any variant returns a non-empty handle to an item nobody
\* holds, whatever allocations and handle drops came before.
UnlimitedPoolNeverExhausted ==
    Unlimited =>
        /\ ~pool_is_memory_exhausted
        /\ \A variant \in AllocateVariants :
              LET R == allocate_safe_get_recycled_item(Current, m_pool)
                  A == allocate_finish(R, m_pool, variant)
              IN R.fits =>
                    /\ R.fault = NoFault
                    /\ A.item \in Stored(A.S)
                    /\ A.item \notin LiveItems(m_pool)
                    /\ ~is_memory_exhausted(A.S)

\* C12, the case: an unlimited pool that has grown twice beyond its first
\* arena, after a handle drop put item 1 back at the head of the free list
UnlimitedPoolGrownTwice ==
    /\ Unlimited
    /\ pool_enlarge_steps_done >= 3
    /\ pool_inuse_count > 0
    /\ Current.m_first_free_item = 1

\* C13: in every state a public operation leaves, every item stored in an
\* arena whose reference count is non-zero (in use) has a null next pointer,
\* in the current pool state and in the ones clear() or the destruction of the
\* pool detached.
InUseItemsUnlinked ==
    failed = NoFault =>
        \A p \in ImplIds : \A i \in Stored(impls[p]) :
            impls[p].items[i].refcount # 0 => impls[p].items[i].next = 0

\* C13, the case: the last item of the first arena is in use and the arena
\* has a next arena: set_next_arena() linked that item to the first item of the
\* new arena while allocate was handing it out
InUseItemAtArenaEnd ==
    /\ Initialized
    /\ pool_enlarge_steps_done >= 2
    /\ Current.linked[1]
    /\ Current.items[Current.arenas[1]].refcount # 0
    /\ Current.items[Current.arenas[1] + 1].refcount = 0

\* the items of a control block that belong to a pool (have an owner) and have
\* reference count zero
FreeItems(S) ==
    {i \in Stored(S) : S.items[i].owner # 0 /\ S.items[i].refcount = 0}

EmptyAfterClear ==
    Clear =>
        /\ pool_capacity' = 0
        /\ pool_unused_count' = 0
        /\ pool_inuse_count' = 0
        /\ pool_empty'
        /\ pool_enlarge_steps_done' = 0

\* C15: after clear() returns, capacity() == 0, unused_count() == 0,
\* inuse_count() == 0 and empty() is true, whatever the state of the pool
\* before the call; the initial capacity is not materialized again.
ClearLeavesNoCapacity == [][EmptyAfterClear]_vars

\* C15, the case: clear() was called on a pool that had grown and has a handle
\* outstanding, and nothing was allocated since
ClearedGrownPoolWithHandle ==
    /\ Initialized
    /\ m_pool = 2
    /\ impls[1].life = "alive" /\ Len(impls[1].arenas) >= 2
    /\ LiveItems(1) # {}
    /\ pool_capacity = 0 /\ pool_empty

\* C16, in every step that drops a handle to an item of a control block that
\* clear() detached: the drop succeeds, the current control block (capacity(),
\* unused_count(), inuse_count(), enlarge_steps_done(), is_memory_exhausted(),
\* free list and items) is unchanged, and the item whose last handle went is
\* on the free list of the detached control block unless the drop released it
DetachedDropLeavesPool ==
    \A p \in ImplIds : \A i \in ItemIds :
        (Initialized /\ p # m_pool /\ DropHandle(p, i)) =>
            /\ failed' = NoFault
            /\ m_pool' = m_pool
            /\ impls'[m_pool] = impls[m_pool]
            /\ handles[p][i] = 1 =>
                  \/ impls'[p].life = "destroyed"
                  \/ i \in FreeList(impls'[p]) /\ impls'[p].life = "alive"

Counters(S) ==
    <<capacity(S), unused_count(S), inuse_count(S), enlarge_steps_done(S),
      is_memory_exhausted(S)>>

\* C17, in every state: inuse_count() is the number of items of the current
\* control block with a non-zero reference count, and replacing the only
\* handle to an item by a newly allocated one (allocate, then the release of
\* the replaced handle) leaves inuse_count() as it was
InUseCountsItems ==
    Initialized =>
        /\ pool_inuse_count =
              Cardinality({i \in Stored(Current) : Current.items[i].refcount # 0})
        /\ \A h \in LiveItems(m_pool) : \A variant \in AllocateVariants :
              LET R == allocate_safe_get_recycled_item(Current, m_pool)
                  A == allocate_finish(R, m_pool, variant)
                  D == intrusive_ptr_release(A.S, h)
              IN (handles[m_pool][h] = 1 /\ R.fits /\ A.item # 0) =>
                    /\ D.fault = NoFault
                    /\ inuse_count(D.S) = pool_inuse_count

\* C17, in every step: the copy of a handle and the drop of a handle that is
\* not the last one to its item change no counter of the pool
CopiesChangeNoCounter ==
    \A p \in ImplIds : \A i \in ItemIds :
        (CopyHandle(p, i) \/ (handles[p][i] > 1 /\ DropHandle(p, i))) =>
            /\ failed' = NoFault
            /\ Counters(impls'[p]) = Counters(impls[p])
            /\ FreeList(impls'[p]) = FreeList(impls[p])

\* C17: inuse_count() equals the number of distinct items of the current pool
\* state whose reference count is non-zero; copying a handle or dropping a
\* non-last copy changes no pool counter, and replacing a held handle by a
\* newly allocated one leaves inuse_count() unchanged once the replaced handle
\* is released.
InUseCountIsItemsHeld == []InUseCountsItems /\ [][CopiesChangeNoCounter]_vars

\* C17, the case: two handles to the same item of the current pool state,
\* which counts one item in use
TwoHandlesOneItem ==
    /\ Initialized
    /\ \E i \in ItemIds : handles[m_pool][i] = 2 /\ Current.items[i].refcount = 2
    /\ pool_inuse_count = 1

\* ------------------------------------------- the capacity accounting scenario
\* A second specification: the program that constructs a pool with initial
\* size 10 and enlarge step 5, allocates 12 items, drops the handles of 7 of
\* them and allocates 3 more. Each of the three phases is one action.

\* room for items in the control block of the scenario
ScenarioItems == 20

\* n calls of allocate() in a row; ok is false when one of them returned
\* nullptr, failed an assertion or needed more room than the model has
RECURSIVE allocate_times(_, _, _)
allocate_times(S, self, n) ==
    IF n = 0 THEN [S |-> S, ok |-> TRUE, fault |-> NoFault]
    ELSE LET R == allocate_safe_get_recycled_item(S, self)
             A == allocate_finish(R, self, "allocate")
         IN IF R.fault # NoFault \/ ~R.fits \/ A.item = 0
            THEN [S |-> A.S, ok |-> FALSE, fault |-> R.fault]
            ELSE allocate_times(A.S, self, n - 1)

\* the handles to the items of order are dropped one after the other
RECURSIVE release_all(_, _)
release_all(S, order) ==
    IF order = <<>> THEN [S |-> S, fault |-> NoFault]
    ELSE LET D == intrusive_ptr_release(S, Head(order))
         IN IF D.fault # NoFault THEN [S |-> D.S, fault |-> D.fault]
            ELSE release_all(D.S, Tail(order))

\* the handles the caller holds after a phase: one per item in use
handles_of(S) ==
    [p \in ImplIds |->
        [i \in DOMAIN S.items |-> IF p = 1 THEN S.items[i].refcount ELSE 0]]

\* boost_intrusive_pool<Item> pool(10, 5, NO_MAX_SIZE, method)
ScenarioInit ==
    /\ poolAlive = TRUE
    /\ m_pool = 1
    /\ nImpls = 1
    /\ \E method \in RecycleMethods :
          impls = [p \in ImplIds |->
                     IF p = 1
                     THEN enlarge([impl_ctor(5, 0, method) EXCEPT
                                      !.items = [i \in 1..ScenarioItems |-> NewItem]],
                                  1, 10).S
                     ELSE NoImpl]
    /\ handles = [p \in ImplIds |-> [i \in 1..ScenarioItems |-> 0]]
    /\ held = 0
    /\ failed = NoFault
    /\ owed = 0
    /\ args = [init_size |-> 10, enlarge_size |-> 5, max_size |-> 0]

\* the end of a phase that left the control block S, with n handles held
ScenarioPhase(R, n) ==
    IF R.fault # NoFault THEN Abort(R.fault)
    ELSE /\ impls' = [impls EXCEPT ![1] = R.S]
         /\ handles' = handles_of(R.S)
         /\ held' = n
         /\ owed' = n
         /\ UNCHANGED <<poolAlive, m_pool, nImpls, failed, args>>

\* first phase: 12 items are allocated and their handles kept
AllocateTwelve ==
    /\ failed = NoFault /\ held = 0
    /\ \E R \in {allocate_times(Current, 1, 12)} :
          R.ok /\ ScenarioPhase(R, 12)

\* the orders in which the scenario drops 7 of the 12 handles: from the k-th
\* item on, every stride-th one, wrapping around
RecycleOrders ==
    {[j \in 1..7 |-> ((k - 1 + (j - 1) * stride) % 12) + 1] :
        k \in 1..12, stride \in {1, 5, 7, 11}}

\* second phase: the handles of 7 items are dropped
RecycleSeven(order) ==
    /\ failed = NoFault /\ held = 12
    /\ \A j \in 1..7 : handles[1][order[j]] = 1
    /\ \E R \in {release_all(Current, order)} : ScenarioPhase(R, 5)

\* third phase: 3 more items are allocated
AllocateThree ==
    /\ failed = NoFault /\ held = 5
    /\ \E R \in {allocate_times(Current, 1, 3)} :
          R.ok /\ ScenarioPhase(R, 8)

ScenarioNext ==
    \/ AllocateTwelve
    \/ \E order \in RecycleOrders : RecycleSeven(order)
    \/ AllocateThree

ScenarioSpec == ScenarioInit /\ [][ScenarioNext]_vars

\* C18: a pool with initial capacity 10 and growth step 5, after allocating 12
\* items has grown exactly once beyond the initial arena and has capacity 15;
\* after then recycling 7 items and allocating 3 more no further growth has
\* happened and the final state is inuse_count() == 8, capacity() == 15,
\* unused_count() == 7.
RoundTripAccounting ==
    /\ failed = NoFault
    /\ held = 0 => Counters(Current) = <<10, 10, 0, 1, FALSE>>
    /\ held = 12 => Counters(Current) = <<15, 3, 12, 2, FALSE>>
    /\ held = 5 => Counters(Current) = <<15, 10, 5, 2, FALSE>>
    /\ held = 8 => Counters(Current) = <<15, 7, 8, 2, FALSE>>
    /\ held \in {0, 12, 5, 8}
    /\ Current.arenas = IF held = 0 THEN <<10>> ELSE <<10, 5>>

\* C18, the case: the end of the scenario
RoundTripDone ==
    /\ failed = NoFault
    /\ held = 8
    /\ Cardinality({i \in DOMAIN Current.items : handles[1][i] = 1}) = 8
    /\ pool_inuse_count = 8 /\ pool_capacity = 15 /\ pool_unused_count = 7

\* C19, in every state: a program stopped by a failed assertion has no pool,
\* and an initialized pool was initialized with a non-zero initial size and
\* with max size 0 or a max size >= the initial size and a non-zero growth step
ActiveOnlyIfWellFormed ==
    /\ failed # NoFault => ~poolAlive /\ m_pool = 0
    /\ Initialized =>
          /\ args.init_size > 0
          /\ args.max_size # 0 =>
                args.max_size >= args.init_size /\ args.enlarge_size > 0
          /\ args.enlarge_size = Current.m_enlarge_step
          /\ args.max_size = Current.m_max_size

\* C19, in every step that constructs / initializes: initial size 0, a
\* non-zero max size smaller than the initial size or combined with growth
\* step 0, and an init() on an initialized pool fail an assertion and leave no
\* pool; anything else yields an initialized pool
MisuseRejected ==
    \A a \in InitArgs :
        PoolInit(a.init_size, a.enlarge_size, a.max_size, a.method) =>
            IF \/ m_pool # 0
               \/ a.init_size = 0
               \/ a.max_size # 0 /\ (a.max_size < a.init_size \/ a.enlarge_size = 0)
            THEN failed' # NoFault /\ ~poolAlive' /\ m_pool' = 0
            ELSE failed' = NoFault /\ poolAlive' /\ m_pool' # 0

InitialArenaMaterialized ==
    \A a \in InitArgs :
        (PoolInit(a.init_size, a.enlarge_size, a.max_size, a.method)
            /\ failed' = NoFault) =>
            /\ m_pool' # 0
            /\ Counters(impls'[m_pool']) = <<a.init_size, a.init_size, 0, 1, FALSE>>
            /\ empty(impls'[m_pool'])
            /\ FreeList(impls'[m_pool']) = 1..a.init_size
            /\ impls'[m_pool'].arenas = <<a.init_size>>

\* C20: immediately after a pool is constructed / initialized with initial
\* size C, the whole initial capacity is materialized: capacity() == C,
\* unused_count() == C, inuse_count() == 0, empty() is true,
\* enlarge_steps_done() == 1 and is_memory_exhausted() is false.
WholeInitialCapacityMaterialized == [][InitialArenaMaterialized]_vars

\* C20, the case: a pool just initialized with initial size 2, nothing
\* allocated from it yet
FreshPoolOfTwo ==
    /\ Initialized /\ m_pool = 1 /\ nImpls = 1
    /\ args.init_size = 2
    /\ held = 0
    /\ pool_capacity = 2 /\ pool_unused_count = 2 /\ pool_enlarge_steps_done = 1

\* the initial size init() takes when it is given none
BOOST_INTRUSIVE_POOL_DEFAULT_POOL_SIZE == 64

\* a pool object constructed with no arguments on which init() was not called
DefaultConstructed == failed = NoFault /\ poolAlive /\ m_pool = 0

\* C21, in every state: before any allocation a pool constructed with no
\* arguments has the default pool size of unused items
DefaultPoolHasDefaultSize ==
    DefaultConstructed => pool_unused_count = BOOST_INTRUSIVE_POOL_DEFAULT_POOL_SIZE

\* C21, in every step: set_recycle_method() and allocate() on a pool
\* constructed with no arguments, without a prior init(), do not stop the
\* program, and the allocate() hands out an item
DefaultPoolServes ==
    /\ \A method \in RecycleMethods :
          (DefaultConstructed /\ SetRecycleMethod(method)) => failed' = NoFault
    /\ \A variant \in AllocateVariants :
          (DefaultConstructed /\ Allocate(variant)) =>
              failed' = NoFault /\ held' = held + 1

\* C21: a pool constructed with no arguments is immediately usable:
\* set_recycle_method() and allocate() may be called on it without a prior
\* init(), and before any allocation unused_count() equals the default pool
\* size 64.
DefaultConstructedPoolUsable == []DefaultPoolHasDefaultSize /\ [][DefaultPoolServes]_vars

\* the item envelopes an operation wrote: the items of a control block whose
\* reference count, next pointer or pool differ between before (S) and after (T)
ItemsWritten(S, T) == {i \in DOMAIN S.items : S.items[i] # T.items[i]}

\* an allocate step that did not construct an arena (it hands out an item,
\* one more being held and in use, or none)
AllocateWithoutGrowth(variant) ==
    /\ m_pool # 0 /\ failed' = NoFault
    /\ impls'[m_pool].created = impls[m_pool].created
    /\ \/ held' = held
       \/ held' = held + 1 /\ impls'[m_pool].m_inuse_count # impls[m_pool].m_inuse_count
    /\ Allocate(variant)

\* C22 as stated, in every step: an allocate that does not grow and a handle
\* drop (with the recycle it may run) write at most one item envelope and
\* construct or delete no arena, whatever the capacity, the number of arenas
\* and the number of items free or in use
ConstantWorkPerCall ==
    /\ \A variant \in AllocateVariants :
          AllocateWithoutGrowth(variant) =>
              /\ Cardinality(ItemsWritten(impls[m_pool], impls'[m_pool])) <= 1
              /\ impls'[m_pool].deleted = impls[m_pool].deleted
    /\ \A p \in ImplIds :
          (held' = held - 1 /\ impls'[p] # impls[p]) =>
              \A i \in ItemIds :
                  (DropHandle(p, i) /\ failed' = NoFault) =>
                      /\ Cardinality(ItemsWritten(impls[p], impls'[p])) <= 1
                      /\ impls'[p].created = impls[p].created
                      /\ impls'[p].deleted = impls[p].deleted

ConstantWorkButTeardown ==
    /\ \A variant \in AllocateVariants :
          AllocateWithoutGrowth(variant) =>
              /\ Cardinality(ItemsWritten(impls[m_pool], impls'[m_pool])) <= 1
              /\ impls'[m_pool].deleted = impls[m_pool].deleted
    /\ \A p \in ImplIds :
          (held' = held - 1 /\ impls'[p] # impls[p]) =>
              \A i \in ItemIds :
                  (DropHandle(p, i) /\ failed' = NoFault) =>
                      IF impls'[p].life = "alive"
                      THEN /\ Cardinality(ItemsWritten(impls[p], impls'[p])) <= 1
                           /\ impls'[p].created = impls[p].created
                           /\ impls'[p].deleted = impls[p].deleted
                      ELSE /\ impls[p].m_trigger_self_destruction
                           /\ impls[p].m_inuse_count = 1
                           /\ impls[p].items[i].refcount = 1
                           /\ impls'[p].life = "destroyed"
                           /\ impls'[p].deleted = Len(impls[p].arenas)

PreconditionFaults ==
    {"init: assert(m_pool == nullptr)",
     "init: assert(init_size > 0)",
     "init: assert(max_size == NO_MAX_SIZE || (max_size >= init_size && enlarge_size > 0))",
     "set_recycle_method: assert(m_pool)",
     "allocate: assert(m_pool)"}

\* C23: no sequence of public operations (construct, the three allocate
\* variants, handle copy / drop, set_recycle_method, clear, pool destruction in
\* any order relative to handle drops) makes an internal consistency assertion
\* fail: the program stops on the caller's precondition violations only, and in
\* every state what the assertions of recycle() and allocate() ask for holds:
\* an item with a handle is unlinked, belongs to the control block that stores
\* it, and that control block counts at least one item in use; the free-list
\* head is null exactly when the free count is 0, and the head of the current
\* control block belongs to it.
NoInternalAssertionFails ==
    /\ failed \in {NoFault} \cup PreconditionFaults
    /\ failed = NoFault =>
          \A p \in ImplIds :
              impls[p].life = "alive" =>
                  /\ (impls[p].m_free_count = 0) <=> (impls[p].m_first_free_item = 0)
                  /\ (p = m_pool /\ impls[p].m_first_free_item # 0) =>
                        impls[p].items[impls[p].m_first_free_item].owner = p
                  /\ \A i \in LiveItems(p) :
                        /\ impls[p].items[i].next = 0
                        /\ impls[p].items[i].owner = p
                        /\ impls[p].m_inuse_count > 0
                        /\ is_bounded(impls[p])
                              \/ impls[p].m_first_free_item # 0
                              \/ impls[p].m_memory_exhausted

\* C23, the case: the pool object is destroyed, of two items that were in use
\* the first is back at the head of the free list, the second one still keeps
\* the control block with its arenas
RecycledAndPoolDead ==
    /\ failed = NoFault /\ ~poolAlive /\ held = 1
    /\ \E p \in ImplIds :
          /\ impls[p].life = "alive" /\ impls[p].m_trigger_self_destruction
          /\ Len(impls[p].arenas) >= 2
          /\ impls[p].m_first_free_item = 1
          /\ impls[p].items[2].refcount = 1
          /\ impls[p].m_inuse_count = 1
          /\ impls[p].refs = 1

\* a control block marked for self destruction that still exists
Pending(p) ==
    /\ failed = NoFault
    /\ impls[p].life = "alive"
    /\ impls[p].m_trigger_self_destruction

\* the items of control block p that hold a reference to it
BackReferences(p) == {i \in Stored(impls[p]) : impls[p].items[i].owner = p}

\* C24: while a pool state is pending self destruction (pool object destroyed
\* or cleared with items in use), the only items that still hold a
\* back-reference to it are its in-use items: every free item's back-reference
\* is null, right after the teardown was triggered and after each later
\* recycle, so the number of item references keeping the control block alive
\* always equals its in-use count.
PendingKeptByItemsInUse ==
    \A p \in ImplIds :
        Pending(p) =>
            /\ BackReferences(p) =
                  {i \in Stored(impls[p]) : impls[p].items[i].refcount > 0}
            /\ BackReferences(p) = LiveItems(p)
            /\ \A i \in Stored(impls[p]) \ BackReferences(p) :
                  impls[p].items[i].owner = 0
            /\ impls[p].refs = Cardinality(BackReferences(p))
            /\ impls[p].refs = impls[p].m_inuse_count
            /\ impls[p].refs > 0
            /\ p # m_pool

\* C24, the case: a pool state left behind by clear(), of its two items that
\* were in use the first is back at the head of its free list, the second
\* still in use
PendingWithOneInUse ==
    /\ Initialized /\ m_pool = 2
    /\ Pending(1)
    /\ impls[1].m_inuse_count = 1
    /\ impls[1].m_first_free_item = 1
    /\ impls[1].items[2].refcount > 0

\* the lifecycle of a control block: 0 Uninitialized (not constructed),
\* 1 Active, 2 SelfDestructPending (marked, kept by items in use), 3 Destroyed
Stage(S) ==
    IF S.life = "unborn" THEN 0
    ELSE IF S.life = "destroyed" THEN 3
    ELSE IF S.m_trigger_self_destruction THEN 2
    ELSE 1

\* C25, in every step of the running program: no control block goes back in
\* its lifecycle, the current one is Active, and one that is marked for self
\* destruction is not the current one, hands out no item (no reference count
\* goes from zero to non-zero), keeps its arenas and its capacity, and does
\* not increase its in-use count, until it is destroyed
OneWay ==
    failed' = NoFault =>
        \A p \in ImplIds :
            /\ Stage(impls'[p]) >= Stage(impls[p])
            /\ p = m_pool' => Stage(impls'[p]) = 1
            /\ (Stage(impls[p]) = 2 /\ Stage(impls'[p]) = 2) =>
                  /\ impls'[p].arenas = impls[p].arenas
                  /\ capacity(impls'[p]) = capacity(impls[p])
                  /\ inuse_count(impls'[p]) <= inuse_count(impls[p])
                  /\ \A i \in DOMAIN impls[p].items :
                        impls[p].items[i].refcount = 0 =>
                            impls'[p].items[i].refcount = 0

\* C25: the lifecycle is one-way (Uninitialized, Active, SelfDestructPending,
\* Destroyed): once a pool state has been marked for self destruction it never
\* serves another allocate and never grows, its capacity stays fixed and its
\* in-use count only decreases until it is destroyed; it never becomes Active
\* again.
LifecycleOneWay == [][OneWay]_vars

\* C25, the case: the first pool state went through the whole lifecycle and
\* is destroyed while the second one, made by clear(), is pending: the pool
\* object is gone and one item of the second state is still in use
FirstDestroyedSecondPending ==
    /\ failed = NoFault /\ ~poolAlive
    /\ Stage(impls[1]) = 3 /\ impls[1].deleted >= 1
    /\ Stage(impls[2]) = 2 /\ impls[2].m_inuse_count = 1

\* C26: for a growable pool (growth step > 0) that owns at least one arena,
\* after every allocate and every recycle either unused_count() > 0 (the
\* free-list head is non-null) or the exhausted flag is true: allocate grows
\* ahead as soon as it pops the last free slot. It holds of every control
\* block that exists, the current one and the ones marked for self destruction.
GrowableHasFreeItemOrIsExhausted ==
    failed = NoFault =>
        \A p \in ImplIds :
            (/\ impls[p].life = "alive"
             /\ impls[p].m_enlarge_step > 0
             /\ m_first_arena(impls[p]) # 0) =>
                \/ unused_count(impls[p]) > 0 /\ impls[p].m_first_free_item # 0
                \/ is_memory_exhausted(impls[p])

\* C26, the case: the allocate that took the last free item grew ahead: every
\* arena but the last is in use, the last arena is all free
GrownAhead ==
    /\ Initialized
    /\ Current.m_enlarge_step > 0
    /\ Len(Current.arenas) >= 2
    /\ ~pool_is_memory_exhausted
    /\ pool_unused_count = Current.arenas[Len(Current.arenas)]
    /\ pool_inuse_count = pool_capacity - pool_unused_count
    /\ Current.m_first_free_item = pool_inuse_count + 1

\* C27: whenever the free-list head of an initialized pool is null (a bounded
\* pool has handed out all its items, a max-size pool has reached its limit
\* with all items in use, or growth failed), the memory-exhausted flag is true.
NullHeadMeansExhausted ==
    (Initialized /\ Current.m_first_free_item = 0) => pool_is_memory_exhausted

\* C28: allocate returns an empty handle only if, before the call,
\* unused_count() == 0 and the pool is bounded (growth step 0) or capacity()
\* equals its max size: the pool never refuses an allocation while a free
\* slot exists or while growth is still permitted.
RefusesOnlyWhenFullAndFixed ==
    Initialized =>
        \A variant \in AllocateVariants :
            LET R == allocate_safe_get_recycled_item(Current, m_pool)
                A == allocate_finish(R, m_pool, variant)
                fixed == \/ is_bounded(Current)
                         \/ Current.m_max_size # 0 /\ pool_capacity = Current.m_max_size
            IN R.fits =>
                  /\ R.fault = NoFault
                  /\ A.item = 0 => pool_unused_count = 0 /\ fixed
                  /\ (pool_unused_count > 0 \/ ~fixed) => A.item \in Stored(A.S)

\* C28, the case: a bounded pool that clear() left without an arena has
\* refused an allocate (nothing else sets the flag of a pool of capacity 0)
ClearedBoundedPoolRefused ==
    /\ Initialized
    /\ pool_is_bounded
    /\ pool_capacity = 0
    /\ pool_is_memory_exhausted

\* the smaller of two numbers
Min(a, b) == IF a <= b THEN a ELSE b

\* C29, in every state: with a max size M set the effective step is
\* min(S, M - capacity), it is 0 exactly when capacity == M; with no max size
\* it is S
EffectiveStepIsClampedStep ==
    Initialized =>
        IF Current.m_max_size # 0
        THEN /\ pool_capacity <= Current.m_max_size
             /\ get_effective_enlarge_step(Current) =
                   Min(Current.m_enlarge_step, Current.m_max_size - pool_capacity)
             /\ (get_effective_enlarge_step(Current) = 0) <=>
                   (pool_capacity = Current.m_max_size)
        ELSE get_effective_enlarge_step(Current) = Current.m_enlarge_step

\* C29, in every step: each arena an allocate appends to the chain of the
\* current control block has min(S, M - capacity) items, capacity being the
\* capacity before that arena, or S items when no max size is set; and
\* capacity grows by the sum of the arenas appended
GrowthByClampedStep ==
    (/\ m_pool # 0 /\ m_pool' = m_pool /\ failed' = NoFault
     /\ impls'[m_pool].arenas # impls[m_pool].arenas) =>
        LET S == impls[m_pool]
            T == impls'[m_pool]
        IN /\ \E variant \in AllocateVariants : Allocate(variant)
           /\ Len(T.arenas) > Len(S.arenas)
           /\ SubSeq(T.arenas, 1, Len(S.arenas)) = S.arenas
           /\ capacity(T) = SumSeq(T.arenas)
           /\ \A k \in (Len(S.arenas) + 1)..Len(T.arenas) :
                 LET before == SumSeq(SubSeq(T.arenas, 1, k - 1))
                 IN T.arenas[k] = IF S.m_max_size # 0
                                  THEN Min(S.m_enlarge_step, S.m_max_size - before)
                                  ELSE S.m_enlarge_step

\* C29: every growth performed by allocate adds exactly min(S, M - capacity)
\* slots when a max size M is set and exactly S slots when no max size is set,
\* where S is the growth step; the effective step is 0 exactly when
\* capacity == M.
GrowthIsClampedStep == []EffectiveStepIsClampedStep /\ [][GrowthByClampedStep]_vars

\* C29, the case: a pool of initial size 2, step 2 and max size 3 grew by
\* min(2, 3 - 2) = 1 item and is at its max size
GrewByTheRemainder ==
    /\ Initialized
    /\ args = [init_size |-> 2, enlarge_size |-> 2, max_size |-> 3]
    /\ Current.arenas = <<2, 1>>
    /\ get_effective_enlarge_step(Current) = 0

\* ------------------------------------------ the environment runs out of memory
\* impl::allocate_safe_get_recycled_item() up to the growth ahead: the growth
\* of an empty free list when there is one, then the pop of the head with the
\* update of the stats
allocate_until_growth_ahead(S, self) ==
    LET step == get_effective_enlarge_step(S)
        B == IF S.m_free_count = 0 /\ step # 0 /\ Fits(S, step)
             THEN enlarge(S, self, step).S ELSE S
    IN IF B.m_first_free_item = 0 THEN B
       ELSE [B EXCEPT !.m_free_count = @ - 1,
                      !.m_inuse_count = @ + 1,
                      !.m_first_free_item = B.items[B.m_first_free_item].next]

\* the allocate that starts in S pops the last free item and calls enlarge()
\* for the growth ahead
GrowsAhead(S, self) ==
    LET P == allocate_until_growth_ahead(S, self)
    IN /\ P.m_inuse_count = S.m_inuse_count + 1
       /\ P.m_first_free_item = 0
       /\ P.m_enlarge_step > 0
       /\ get_effective_enlarge_step(P) # 0

\* allocate(), allocate_through_init(args) or allocate_through_function(fn)
\* when the "new" of the growth ahead finds no memory: operator new does not
\* return nullptr, it throws std::bad_alloc, which leaves enlarge() and the
\* allocate call at that point. The stats and the head are updated, the item
\* is handed to nobody.
AllocateBadAlloc ==
    /\ failed = NoFault /\ poolAlive /\ m_pool # 0
    /\ GrowsAhead(Current, m_pool)
    /\ impls' = [impls EXCEPT ![m_pool] = allocate_until_growth_ahead(@, m_pool)]
    /\ UNCHANGED <<poolAlive, m_pool, nImpls, handles, held, failed, owed, args>>

NextOrBadAlloc == Next \/ AllocateBadAlloc

\* the program in an environment that may run out of memory
SpecBadAlloc == Init /\ [][NextOrBadAlloc]_vars

\* the current pool has one free item, a growth step, and is at its max size:
\* the growth ahead of the allocate that pops the item is impossible
LastSlotAtMaxSize ==
    /\ Initialized
    /\ Current.m_enlarge_step > 0
    /\ Current.m_free_count = 1
    /\ Current.m_max_size # 0 /\ pool_capacity = Current.m_max_size

\* C30, in every step: the allocate that pops the last free slot while the
\* growth ahead is impossible (max size reached) or fails (no memory) hands
\* out the popped item, counts it in use, sets the exhausted flag, and the
\* next allocate returns empty
LastSlotServed ==
    (\/ LastSlotAtMaxSize /\ \E variant \in AllocateVariants : Allocate(variant)
     \/ AllocateBadAlloc) =>
        /\ failed' = NoFault
        /\ held' = held + 1
        /\ \E i \in ItemIds :
              /\ handles'[m_pool][i] = 1 /\ handles[m_pool][i] = 0
              /\ i = impls[m_pool].m_first_free_item \/ impls[m_pool].m_free_count = 0
        /\ inuse_count(impls'[m_pool]) = inuse_count(impls[m_pool]) + 1
        /\ unused_count(impls'[m_pool]) = 0
        /\ is_memory_exhausted(impls'[m_pool])
        /\ allocate_safe_get_recycled_item(impls'[m_pool], m_pool).item = 0

\* C30: when allocate pops the last free slot and the proactive growth that
\* follows is impossible or fails, the call still succeeds: it returns the
\* already-popped item with the counters updated for that item and sets the
\* exhausted flag; only the next allocate (with no item recycled in between)
\* returns empty.
LastSlotSurvivesFailedGrowth == [][LastSlotServed]_vars

\* the free list of a control block as the sequence of items a walk from
\* pcurr meets; fuel stops the walk of a list that does not end
RECURSIVE free_list_seq(_, _, _)
free_list_seq(S, pcurr, fuel) ==
    IF pcurr = 0 \/ fuel = 0 THEN <<>>
    ELSE <<pcurr>> \o free_list_seq(S, S.items[pcurr].next, fuel - 1)

\* one step more than there are items: a walk that long met an item twice
FreeSeq(S) == free_list_seq(S, S.m_first_free_item, Len(S.items) + 1)

\* C31: in every state reached after a public operation on an active pool,
\* the free list starting at the head is acyclic and finite, contains exactly
\* the pool's items with reference count zero, each once, and no in-use item;
\* its length equals unused_count(), and the head is null exactly when
\* unused_count() == 0.
FreeListIsTheFreeItems ==
    Initialized =>
        LET S == Current
            L == FreeSeq(S)
        IN /\ Len(L) <= SumSeq(S.arenas)
           /\ \A k \in 1..Len(L) : L[k] \in Stored(S)
           /\ \A j, k \in 1..Len(L) : L[j] = L[k] => j = k
           /\ Len(L) > 0 => S.items[L[Len(L)]].next = 0
           /\ {L[k] : k \in 1..Len(L)} = {i \in Stored(S) : S.items[i].refcount = 0}
           /\ \A k \in 1..Len(L) : L[k] \notin LiveItems(m_pool)
           /\ Len(L) = pool_unused_count
           /\ (S.m_first_free_item = 0) <=> (pool_unused_count = 0)

\* C31, the case: recycles threaded the free list of a grown pool against the
\* order of the arenas: three free items, one of them linked to an item
\* before it
FreeListThreadedBack ==
    /\ Initialized
    /\ pool_enlarge_steps_done >= 2
    /\ Len(FreeSeq(Current)) = 3
    /\ \E i \in Stored(Current) :
          Current.items[i].next # 0 /\ Current.items[i].next < i

\* a pool that was initialized bounded (growth step 0) and has no capacity:
\* clear() was called on it
ClearedBounded == Initialized /\ args.enlarge_size = 0 /\ pool_capacity = 0

\* C32, in every state: a bounded pool after clear() is still bounded, has no
\* arena, and every allocate on it returns an empty handle and sets the
\* exhausted flag, changing nothing else
ClearedBoundedRefuses ==
    ClearedBounded =>
        /\ pool_is_bounded
        /\ m_first_arena(Current) = 0
        /\ \A variant \in AllocateVariants :
              LET R == allocate_safe_get_recycled_item(Current, m_pool)
                  A == allocate_finish(R, m_pool, variant)
              IN /\ R.fits /\ R.fault = NoFault
                 /\ A.item = 0
                 /\ A.S = [Current EXCEPT !.m_memory_exhausted = TRUE]

\* C32, in every step: whatever public operation comes next, a bounded pool
\* after clear() has capacity 0 afterwards too, as long as the pool object
\* exists and the program runs
ClearedBoundedStaysEmpty ==
    (ClearedBounded /\ failed' = NoFault /\ poolAlive') =>
        /\ m_pool' # 0
        /\ args' = args
        /\ capacity(impls'[m_pool']) = 0
        /\ is_bounded(impls'[m_pool'])

\* C32: after clear() on a bounded pool (growth step 0), capacity() stays 0
\* and every subsequent allocate returns an empty handle and sets the
\* exhausted flag: no public operation can ever give that pool capacity again.
ClearedBoundedPoolIsDead == []ClearedBoundedRefuses /\ [][ClearedBoundedStaysEmpty]_vars

\* C32, the case: a bounded pool was cleared while a handle was out, and has
\* refused an allocate since
ClearedBoundedRefusedBesideHandle ==
    /\ ClearedBounded
    /\ pool_is_memory_exhausted
    /\ held = 1
    /\ \E p \in ImplIds : p # m_pool /\ LiveItems(p) # {}

\* ------------------------------------------------------ clear() after clear()
\* number of control blocks a run of the program below may create: init(),
\* clear() and clear() again
ClearImpls == 3

\* boost_intrusive_pool(): an uninitialized pool, in a model with room for
\* ClearImpls control blocks
ClearTwiceInit ==
    /\ poolAlive = TRUE
    /\ m_pool = 0
    /\ impls = [p \in 1..ClearImpls |-> NoImpl]
    /\ nImpls = 0
    /\ handles = [p \in 1..ClearImpls |-> [i \in ItemIds |-> 0]]
    /\ held = 0
    /\ failed = NoFault
    /\ owed = 0
    /\ args = NoArgs

\* init(), allocate(), handle drops and clear()
ClearTwiceNext ==
    \/ \E a \in InitArgs :
          PoolInit(a.init_size, a.enlarge_size, a.max_size, a.method)
    \/ Allocate("allocate")
    \/ \E p \in DOMAIN impls, i \in ItemIds : DropHandle(p, i)
    \/ Clear

ClearTwiceSpec == ClearTwiceInit /\ [][ClearTwiceNext]_vars

\* what the getters of the pool and the configuration of its control block show
Observable ==
    IF m_pool = 0 THEN <<0, 0, 0, FALSE, 0, 0, "none">>
    ELSE <<capacity(Current), unused_count(Current), inuse_count(Current),
           is_memory_exhausted(Current), Current.m_enlarge_step,
           Current.m_max_size, Current.m_recycle_method>>

\* the pool is in the state clear() leaves: a control block as constructed
JustCleared ==
    /\ Initialized
    /\ Current = impl_ctor(Current.m_enlarge_step, Current.m_max_size,
                           Current.m_recycle_method)

\* C33, in every step: clear() leaves capacity, unused and in-use count 0, the
\* flag false, and growth step, max size and recycle policy as they were; on
\* a pool that clear() just left it changes nothing observable; on a pool
\* never initialized it changes nothing at all
ClearOnceOrTwice ==
    Clear =>
        /\ m_pool = 0 => UNCHANGED vars
        /\ m_pool # 0 =>
              Observable' = <<0, 0, 0, FALSE, Current.m_enlarge_step,
                              Current.m_max_size, Current.m_recycle_method>>
        /\ JustCleared => Observable' = Observable /\ JustCleared'

\* C33: clear() is idempotent: calling clear() twice in a row leaves the pool
\* in the same observable state (capacity, unused, in-use, exhausted flag,
\* growth step, max size, recycle policy) as calling it once, and clear() on a
\* never-initialized pool is a no-op.
ClearIsIdempotent == [][ClearOnceOrTwice]_vars

\* C33, the case: clear() was called on the pool that clear() had left: the
\* second control block never had an arena and is destroyed, the third one
\* is current, a handle to an item of the first one is still out
ClearedTwice ==
    /\ JustCleared
    /\ m_pool = 3
    /\ impls[2].life = "destroyed" /\ impls[2].created = 0
    /\ impls[1].life = "alive" /\ LiveItems(1) # {}
    /\ Current.m_enlarge_step > 0

\* ------------------------------------- allocate_through_function(fn) and fn
\* number of references to a control block that setup functions may overwrite
MaxLeaked == 1

\* what the caller's fn does with the item it is given: it sets fields of the
\* item, or it runs Item's constructor in the storage of the item
SetupFunctions == {"sets fields", "runs constructor"}

\* fn(*recycled_item): the constructor of boost_intrusive_pool_item makes the
\* intrusive_ptr member anew and sets next, refcount and owner to their
\* defaults; nothing releases the reference the member held
fn_run(S, i, fn) ==
    IF fn = "runs constructor" THEN [S EXCEPT !.items[i] = NewItem] ELSE S

\* boost_intrusive_pool::allocate_through_function(fn) after
\* allocate_safe_get_recycled_item() returned R: fn(*recycled_item), then
\* _refcounted_item_set_pool(m_pool), then the handle
allocate_through_function(R, self, fn) ==
    IF R.fault # NoFault \/ R.item = 0
    THEN [S |-> R.S, item |-> 0, called |-> NoRun]
    ELSE [S |-> intrusive_ptr_add_ref(
                    set_pool(fn_run(R.S, R.item, fn), self, R.item, self), R.item),
          item |-> R.item, called |-> "fn"]

\* references to the current control block beyond the one of the pool and
\* the ones of its items
Leaked == Current.refs - 1 - SumSeq(Current.arenas)

\* boost_intrusive_pool::allocate_through_function(fn)
AllocateThroughFunction(fn) ==
    /\ failed = NoFault /\ poolAlive
    /\ IF m_pool = 0 THEN Abort("allocate: assert(m_pool)")
       ELSE \E R \in {allocate_safe_get_recycled_item(Current, m_pool)} :
            \E A \in {allocate_through_function(R, m_pool, fn)} :
               /\ R.fits
               /\ fn = "runs constructor" => Leaked < MaxLeaked
               /\ IF R.fault # NoFault THEN Abort(R.fault)
                  ELSE IF A.item = 0
                  THEN /\ impls' = [impls EXCEPT ![m_pool] = A.S]
                       /\ UNCHANGED <<poolAlive, m_pool, nImpls, handles, held, failed, owed, args>>
                  ELSE /\ held < MaxHeld
                       /\ impls' = [impls EXCEPT ![m_pool] = A.S]
                       /\ handles' = [handles EXCEPT ![m_pool][A.item] = @ + 1]
                       /\ held' = held + 1
                       /\ owed' = owed + 1
                       /\ UNCHANGED <<poolAlive, m_pool, nImpls, failed, args>>

NextOrSetupFunction == Next \/ \E fn \in SetupFunctions : AllocateThroughFunction(fn)

SpecSetupFunction == Init /\ [][NextOrSetupFunction]_vars

\* C34, in every step: the item allocate_through_function(fn) hands out has
\* the pool as its owner, one reference and no next item
StampedAfterSetup ==
    \A fn \in SetupFunctions :
       (AllocateThroughFunction(fn) /\ held' = held + 1) =>
          \E i \in ItemIds :
             /\ handles'[m_pool][i] = handles[m_pool][i] + 1
             /\ impls'[m_pool].items[i] = [NewItem EXCEPT !.refcount = 1, !.owner = m_pool]

\* C34, in every step: the drop of the last handle of an item puts the item
\* at the head of the free list of its pool when the pool is alive
LastDropReturnsToPool ==
    \A p \in ImplIds, i \in ItemIds :
       (DropHandle(p, i) /\ failed' = NoFault /\ handles[p][i] = 1
           /\ impls[p].items[i].refcount = 1 /\ p = m_pool) =>
          /\ impls'[p].m_first_free_item = i
          /\ impls'[p].items[i].owner = p

\* C34, in every state: once the pool is destroyed and no handle is held,
\* every arena that was created is deleted
StorageReleasedAtLast ==
    (~poolAlive /\ held = 0 /\ failed = NoFault) =>
        \A p \in ImplIds : impls[p].deleted = impls[p].created

\* C34: An item returned by allocate_through_function has its pool
\* back-reference equal to the allocating pool, reference count 1 and a null
\* next pointer even when the caller's setup function reset all envelope
\* fields to their defaults; dropping its last handle returns it to that pool,
\* and the pool's storage is still released after pool destruction once the
\* last handle is dropped.
SetupFunctionMayResetEnvelope ==
    /\ [][StampedAfterSetup /\ LastDropReturnsToPool]_vars
    /\ []StorageReleasedAtLast

\* ------------------------------------------- assignment and copy of items
\* the values of the data of an item (m_int of DummyInt)
Values == {0, 1}

\* items that are not in any pool are kept in the items of a control block
\* that is never constructed; the program has one such item, a local variable
Outside == MaxImpls + 1
Local == 1

\* refcount, next and owner of an item
Envelope(item) == <<item.refcount, item.next, item.owner>>

\* DummyInt(j): boost_intrusive_pool_item() and m_int(j)
item_of(v) == [NewItem EXCEPT !.value = v]

\* a faulty variant of the assignment that copies all members
item_assign_copies_members(this, other) == other

\* Item::operator=(const Item&) and Item::operator=(Item&&): the operators of
\* boost_intrusive_pool_item copy nothing and return *this, the class derived
\* from it copies its data
item_assign(this, other) == [this EXCEPT !.value = other.value]

\* Item::Item(const Item&) and Item::Item(Item&&): the constructors of
\* boost_intrusive_pool_item set next, refcount and owner to their defaults,
\* the class derived from it copies its data
item_copy(other) == [NewItem EXCEPT !.value = other.value]

\* the items the program can name: the local one, and the items of a pool it
\* holds a handle to
Reachable(p, i) ==
    \/ p = Outside /\ i = Local
    \/ /\ p \in ImplIds /\ handles[p][i] > 0
       /\ impls[p].life = "alive" /\ i \in Stored(impls[p])

\* *target = other, or *target = std::move(other)
AssignItem(p, i, other) ==
    /\ failed = NoFault
    /\ Reachable(p, i)
    /\ impls' = [impls EXCEPT ![p].items[i] = item_assign(@, other)]
    /\ UNCHANGED <<poolAlive, m_pool, nImpls, handles, held, failed, owed, args>>

\* the local item is made anew as a copy of an item: Item local(other)
CopyConstruct(q, j) ==
    /\ failed = NoFault
    /\ Reachable(q, j)
    /\ impls' = [impls EXCEPT ![Outside].items[Local] = item_copy(impls[q].items[j])]
    /\ UNCHANGED <<poolAlive, m_pool, nImpls, handles, held, failed, owed, args>>

\* a pool with a local item beside it
AssignInit ==
    /\ poolAlive = TRUE
    /\ m_pool = 0
    /\ impls = [p \in 1..Outside |-> NoImpl]
    /\ nImpls = 0
    /\ handles = [p \in 1..Outside |-> [i \in ItemIds |-> 0]]
    /\ held = 0
    /\ failed = NoFault
    /\ owed = 0
    /\ args = NoArgs

\* the items an assignment takes its value from: DummyInt(v), or an item the
\* program can name
Sources ==
    {item_of(v) : v \in Values}
        \cup {impls[q[1]].items[q[2]] :
                 q \in {r \in (DOMAIN impls) \X ItemIds : Reachable(r[1], r[2])}}

\* a pool that does not touch the data of the items it recycles, used by a
\* program that assigns to items and copies them
AssignNext ==
    \/ \E a \in {b \in InitArgs : b.method = "RECYCLE_METHOD_NONE"} :
          PoolInit(a.init_size, a.enlarge_size, a.max_size, a.method)
    \/ Allocate("allocate")
    \/ \E p \in ImplIds, i \in ItemIds : CopyHandle(p, i)
    \/ \E p \in ImplIds, i \in ItemIds : DropHandle(p, i)
    \/ Destroy
    \/ \E p \in DOMAIN impls, i \in ItemIds, other \in Sources : AssignItem(p, i, other)
    \/ \E q \in DOMAIN impls, j \in ItemIds : CopyConstruct(q, j)

AssignSpec == AssignInit /\ [][AssignNext]_vars

\* C35, in every step: an assignment leaves refcount, next and owner of every
\* item, pooled or not, as they were
AssignmentKeepsEnvelope ==
    (\E p \in DOMAIN impls, i \in ItemIds, other \in Sources : AssignItem(p, i, other))
    => \A p \in DOMAIN impls, i \in ItemIds :
          Envelope(impls'[p].items[i]) = Envelope(impls[p].items[i])

\* C35, in every step: an item made as a copy has count 0, no next item and
\* no pool
CopyStartsOutsideAnyPool ==
    (\E q \in DOMAIN impls, j \in ItemIds : CopyConstruct(q, j))
    => Envelope(impls'[Outside].items[Local]) = <<0, 0, 0>>

\* C35, in every step: the last drop of an item that was assigned a value
\* puts it at the head of the free list of its pool
AssignedIsRecycledIntoItsPool ==
    \A p \in ImplIds, i \in ItemIds :
       (DropHandle(p, i) /\ failed' = NoFault /\ p = m_pool
           /\ impls[p].items[i].refcount = 1 /\ impls[p].items[i].value # 0) =>
          /\ impls'[p].m_first_free_item = i
          /\ impls'[p].items[i].owner = p
          /\ impls'[p].m_free_count = impls[p].m_free_count + 1
          /\ impls'[p].m_inuse_count = impls[p].m_inuse_count - 1

\* C35: Copy-assigning or move-assigning one item to another (pooled or not)
\* leaves the target's envelope unchanged: its reference count, free-list next
\* pointer and pool back-reference are the same before and after, so an
\* in-use pooled item that is assigned a new value is still recycled into its
\* own pool on last drop; a copy-constructed item starts with count 0, null
\* next and no pool.
AssignmentLeavesEnvelopeAlone ==
    [][/\ AssignmentKeepsEnvelope
       /\ CopyStartsOutsideAnyPool
       /\ AssignedIsRecycledIntoItsPool]_vars

\* C35, the case: an item in use was assigned a value and copied into the
\* local item, then its last handle was dropped, and it is the head of the
\* free list of its pool beside an item in use that was assigned the value of
\* the local item
AssignedThenRecycled ==
    /\ Initialized /\ failed = NoFault
    /\ \E i \in Stored(Current) :
          /\ Current.m_first_free_item = i
          /\ Current.items[i] = [NewItem EXCEPT !.value = 1, !.owner = m_pool,
                                                !.next = Current.items[i].next]
    /\ \E k \in Stored(Current) :
          Current.items[k].value = 1 /\ Current.items[k].refcount = 2
    /\ impls[Outside].items[Local] = item_of(1)

\* --------------------------------------- construction and destruction of items
\* the objects of Item constructed and not yet destructed (the tests'
\* dummy_one::m_count), over all control blocks
Constructed == SumSeq([p \in ImplIds |-> impls[p].m_count])

\* the total size of the arenas that are not deleted
ArenaItems == SumSeq([p \in ImplIds |-> SumSeq(impls[p].arenas)])

\* C36, in every state: the items constructed and not destructed are the items
\* of the arenas not yet released
ConstructedAreArenaItems == Constructed = ArenaItems

\* C36, in every step: an item is constructed only when an arena is created,
\* destructed only when an arena is deleted (the steps of a program that an
\* assertion stops are left out)
ConstructedWithArenasOnly ==
    failed' = NoFault =>
    \A p \in ImplIds :
       /\ impls'[p].m_count > impls[p].m_count => impls'[p].created > impls[p].created
       /\ impls'[p].m_count < impls[p].m_count => impls'[p].deleted > impls[p].deleted
       /\ (\E i \in ItemIds : CopyHandle(p, i)) => impls'[p].m_count = impls[p].m_count
       /\ (\E i \in ItemIds : DropHandle(p, i)) =>
             \/ impls'[p].m_count = impls[p].m_count
             \/ impls'[p].life = "destroyed"

\* C36, in every step: the count returns to 0 only when no handle is held and
\* the pool is destroyed
BackToZeroAfterDestruction ==
    (Constructed > 0 /\ Constructed' = 0 /\ failed' = NoFault) => (held' = 0 /\ ~poolAlive')

\* C36, in every step: the count returns to 0 only when no handle is held and
\* the pool is destroyed or left empty by clear()
BackToZeroAfterDestructionOrClear ==
    (Constructed > 0 /\ Constructed' = 0 /\ failed' = NoFault) =>
        /\ held' = 0
        /\ ~poolAlive' \/ (m_pool' # 0 /\ impls'[m_pool'].created = 0)

RECURSIVE arenas_walked(_, _)
arenas_walked(S, pcurr) ==
    IF pcurr = 0 THEN 0
    ELSE 1 + arenas_walked(S, IF S.linked[pcurr] THEN pcurr + 1 ELSE 0)

\* C37, in every state: of a control block that is alive, capacity() is the
\* sum of the sizes of the arenas, and enlarge_steps_done(), the arenas met
\* on the chain, is the number of arenas that were created, none of them
\* deleted
ChainHoldsEveryArena ==
    \A p \in ImplIds :
       impls[p].life = "alive" =>
          /\ capacity(impls[p]) = SumSeq(impls[p].arenas)
          /\ arenas_walked(impls[p], m_first_arena(impls[p])) = impls[p].created
          /\ enlarge_steps_done(impls[p]) = impls[p].created
          /\ impls[p].deleted = 0
          /\ impls[p].created >= 1 \/ impls[p].m_total_count = 0

\* C37, in every step: of a control block that stays alive, the arenas keep
\* size and place, a next link that is set stays as it is, no arena is
\* deleted and enlarge_steps_done() does not decrease
ChainGrowsAtTheEnd ==
    \A p \in ImplIds :
       (impls[p].life = "alive" /\ impls'[p].life = "alive") =>
          /\ Len(impls'[p].arenas) >= Len(impls[p].arenas)
          /\ SubSeq(impls'[p].arenas, 1, Len(impls[p].arenas)) = impls[p].arenas
          /\ \A k \in 1..Len(impls[p].arenas) :
                impls[p].linked[k] => impls'[p].linked[k]
          /\ \A k \in 1..Len(impls'[p].arenas) :
                impls'[p].linked[k] <=> k < Len(impls'[p].arenas)
          /\ impls'[p].deleted = impls[p].deleted
          /\ enlarge_steps_done(impls'[p]) >= enlarge_steps_done(impls[p])

\* C37, in every step: the arenas of a control block are deleted all at once,
\* when the control block is
ChainFreedAsAWhole ==
    \A p \in ImplIds :
       (impls[p].life = "alive" /\ impls'[p].life # "alive" /\ failed' = NoFault) =>
          /\ impls'[p].life = "destroyed"
          /\ impls'[p].deleted = impls[p].created

\* C37: While a pool state is alive its arena chain is append-only: an arena's
\* size and position never change, its next link is set at most once, no arena
\* is freed individually, capacity() always equals the sum of the arena sizes,
\* and enlarge_steps_done() equals the number of arenas (the initial one
\* included) and never decreases.
ArenaChainIsAppendOnly ==
    /\ []ChainHoldsEveryArena
    /\ [][ChainGrowsAtTheEnd /\ ChainFreedAsAWhole]_vars

\* C37, the case: a control block grew twice, to a chain of three arenas, and
\* lives on after its pool was destroyed
ChainOfThreeOutlivesPool ==
    /\ ~poolAlive /\ failed = NoFault
    /\ impls[1].life = "alive" /\ impls[1].m_trigger_self_destruction
    /\ impls[1].arenas = <<1, 1, 1>> /\ impls[1].linked = <<TRUE, TRUE, FALSE>>
    /\ enlarge_steps_done(impls[1]) = 3

\* --------------------------- BOOST_INTRUSIVE_POOL_DEBUG_THREAD_ACCESS set to 1
\* number of threads of the program; pthread_self() of a thread is its number
MaxThreads == 2
Threads == 1..MaxThreads

\* the check at the head of allocate_safe_get_recycled_item() run by thread t:
\* the first thread is recorded, another one fails the assertion
allocate_thread_check(S, t) ==
    IF S.m_allowed_thread = 0
    THEN [S |-> [S EXCEPT !.m_allowed_thread = t], fault |-> NoFault]
    ELSE IF S.m_allowed_thread # t
    THEN [S |-> S, fault |-> "allocate: assert(m_allowed_thread == pthread_self())"]
    ELSE [S |-> S, fault |-> NoFault]

\* the check at the head of enlarge() run by thread t
enlarge_thread_check(S, t) ==
    IF S.m_allowed_thread = 0 \/ S.m_allowed_thread = t THEN NoFault
    ELSE "enlarge: assert(m_allowed_thread == 0 || m_allowed_thread == pthread_self())"

\* a faulty variant of the check of recycle() that lets every thread pass
recycle_thread_unchecked(S, t) == NoFault

\* the check at the head of recycle() run by thread t
recycle_thread_check(S, t) ==
    IF S.m_allowed_thread = 0 THEN "recycle: assert(m_allowed_thread != 0)"
    ELSE IF S.m_allowed_thread # t
    THEN "recycle: assert(m_allowed_thread == pthread_self())"
    ELSE NoFault

\* intrusive_ptr_release(x) calls recycle(): the last reference of an item
\* that has an owner is given up
Recycles(S, i) == S.items[i].refcount = 1 /\ S.items[i].owner # 0

\* init() run by thread t: enlarge() checks the thread of a control block that
\* has recorded none
DebugPoolInit(t, init_size, enlarge_size, max_size, method) ==
    /\ enlarge_thread_check(impl_ctor(enlarge_size, max_size, method), t) = NoFault
    /\ PoolInit(init_size, enlarge_size, max_size, method)

\* allocate() run by thread t
DebugAllocate(t) ==
    /\ failed = NoFault /\ poolAlive
    /\ IF m_pool = 0 THEN Abort("allocate: assert(m_pool)")
       ELSE \E C \in {allocate_thread_check(Current, t)} :
            IF C.fault # NoFault THEN Abort(C.fault)
            ELSE
            \E R \in {allocate_safe_get_recycled_item(C.S, m_pool)} :
            \E A \in {allocate_finish(R, m_pool, "allocate")} :
               /\ R.fits
               /\ enlarge_thread_check(C.S, t) = NoFault
               /\ IF R.fault # NoFault THEN Abort(R.fault)
                  ELSE IF A.item = 0
                  THEN /\ impls' = [impls EXCEPT ![m_pool] = A.S]
                       /\ UNCHANGED <<poolAlive, m_pool, nImpls, handles, held, failed, owed, args>>
                  ELSE /\ held < MaxHeld
                       /\ impls' = [impls EXCEPT ![m_pool] = A.S]
                       /\ handles' = [handles EXCEPT ![m_pool][A.item] = @ + 1]
                       /\ held' = held + 1
                       /\ owed' = owed + 1
                       /\ UNCHANGED <<poolAlive, m_pool, nImpls, failed, args>>

\* thread t drops a handle
DebugDropHandle(t, p, i) ==
    /\ failed = NoFault
    /\ handles[p][i] > 0
    /\ IF impls[p].life # "alive" \/ i \notin Stored(impls[p])
       THEN Abort("use of an item whose arena was deleted")
       ELSE IF Recycles(impls[p], i) /\ recycle_thread_check(impls[p], t) # NoFault
       THEN Abort(recycle_thread_check(impls[p], t))
       ELSE \E R \in {intrusive_ptr_release(impls[p], i)} :
               IF R.fault # NoFault THEN Abort(R.fault)
               ELSE /\ impls' = [impls EXCEPT ![p] = R.S]
                    /\ handles' = [handles EXCEPT ![p][i] = @ - 1]
                    /\ held' = held - 1
                    /\ owed' = IF R.run = NoRun THEN owed ELSE owed - 1
                    /\ UNCHANGED <<poolAlive, m_pool, nImpls, failed, args>>

\* a program of MaxThreads threads that use one pool without maximum size,
\* built with the check
DebugNext ==
    \/ \E t \in Threads, a \in {b \in InitArgs : b.method = "RECYCLE_METHOD_NONE"
                                                  /\ b.max_size = 0} :
          DebugPoolInit(t, a.init_size, a.enlarge_size, a.max_size, a.method)
    \/ \E t \in Threads : DebugAllocate(t)
    \/ \E p \in ImplIds, i \in ItemIds : CopyHandle(p, i)
    \/ \E t \in Threads, p \in ImplIds, i \in ItemIds : DebugDropHandle(t, p, i)
    \/ Clear
    \/ Destroy

DebugSpec == Init /\ [][DebugNext]_vars

\* C38, in every state: a pool that was touched (init() made its first arena)
\* has recorded a thread
RecordedOnceTouched == Initialized => Current.m_allowed_thread # 0

\* C38, in every step: allocate() by a thread other than the recorded one, and
\* the drop by such a thread of the last handle of an item, fail the
\* assertion, whether the pool object lives or not
OtherThreadFails ==
    /\ \A t \in Threads :
          (m_pool # 0 /\ Current.m_allowed_thread \notin {0, t} /\ DebugAllocate(t))
             => failed' = "allocate: assert(m_allowed_thread == pthread_self())"
    /\ \A t \in Threads, p \in ImplIds, i \in ItemIds :
          (impls[p].life = "alive" /\ i \in Stored(impls[p])
              /\ Recycles(impls[p], i) /\ impls[p].m_allowed_thread # t
              /\ DebugDropHandle(t, p, i))
             => failed' \in {"recycle: assert(m_allowed_thread != 0)",
                             "recycle: assert(m_allowed_thread == pthread_self())"}

\* C38, in every step: the first thread that allocates from a control block
\* is recorded in it, what is recorded stays, and a new control block has
\* recorded none
RecordedOnFirstAllocate ==
    /\ \A t \in Threads :
          (m_pool # 0 /\ Current.m_allowed_thread = 0 /\ failed' = NoFault
              /\ DebugAllocate(t))
             => impls'[m_pool].m_allowed_thread = t
    /\ \A p \in ImplIds :
          /\ (impls[p].m_allowed_thread # 0 /\ impls'[p].life = "alive")
                => impls'[p].m_allowed_thread = impls[p].m_allowed_thread
          /\ (impls[p].life # "alive" /\ impls'[p].life = "alive")
                => impls'[p].m_allowed_thread = 0
    /\ \A p \in ImplIds : impls[p].m_inuse_count > 0 => impls[p].m_allowed_thread # 0

\* C38: With the debug thread-access check enabled, the identity of the first
\* thread to touch the pool is recorded and every subsequent access (allocate,
\* growth, recycle on handle drop) by any other thread fails the assertion,
\* including recycles that happen after the pool object was destroyed.
FirstThreadToTouchIsRecorded ==
    /\ []RecordedOnceTouched
    /\ [][OtherThreadFails]_vars

\* C38 as amended: the identity of the first thread to allocate from a pool
\* state is recorded, and every subsequent allocate (growth included) and
\* recycle on handle drop on that pool state by any other thread fails the
\* assertion, including recycles that happen after the pool object was
\* destroyed.
FirstThreadToAllocateIsRecorded == [][RecordedOnFirstAllocate /\ OtherThreadFails]_vars

\* C38, the case: the drop of a last handle by a thread that is not the
\* recorded one has stopped the program
StoppedByRecycleOfOtherThread ==
    failed = "recycle: assert(m_allowed_thread == pthread_self())"

\* ------------------------------------------- two threads without a lock
\* the program has two threads; it makes one pool of fixed size that both
\* use, or one such pool for each (control block t for thread t, m_pool being
\* the pointer of the first pool object)
RaceThreads == {1, 2}

\* a faulty variant in which the threads use the first pool whatever the
\* program made
pool_of_first(t) == 1

\* the control block of the pool that thread t uses
pool_of(t) == IF nImpls = 1 THEN 1 ELSE t

\* the frame of a thread that enters allocate()
EntersAllocate == [pc |-> "take", item |-> 0]

\* allocate() in three steps, each one a run of statements with no other
\* thread between them. B holds the control blocks, f the frame of the thread,
\* self its pool; the result has the fault of an assertion that failed.
\* take: the test of m_free_count, the exit with m_memory_exhausted of a pool
\*   that cannot grow, recycled_item = m_first_free_item;
\* advance: m_free_count--, m_inuse_count++, m_first_free_item =
\*   m_first_free_item->next (of a pool that cannot grow, so nothing more);
\* wrap: recycled_item->next = nullptr, and the reference of the handle
allocate_step(S, self, f) ==
    IF f.pc = "take"
    THEN IF S.m_free_count = 0
         THEN IF S.m_first_free_item # 0
              THEN [S |-> S, f |-> f, fault |-> "allocate: assert(m_first_free_item == nullptr)"]
              ELSE [S |-> [S EXCEPT !.m_memory_exhausted = TRUE],
                    f |-> [pc |-> "done", item |-> 0], fault |-> NoFault]
         ELSE IF S.m_first_free_item = 0
         THEN [S |-> S, f |-> f, fault |-> "allocate: assert(m_first_free_item != nullptr)"]
         ELSE IF S.items[S.m_first_free_item].owner # self
         THEN [S |-> S, f |-> f,
               fault |-> "allocate: assert(recycled_item->_refcounted_item_get_pool().get() == this)"]
         ELSE [S |-> S, f |-> [pc |-> "advance", item |-> S.m_first_free_item],
               fault |-> NoFault]
    ELSE IF f.pc = "advance"
    THEN IF S.m_first_free_item = 0
         THEN [S |-> S, f |-> f, fault |-> "allocate: m_first_free_item is null when its next is read"]
         ELSE [S |-> [S EXCEPT !.m_free_count = @ - 1,
                               !.m_inuse_count = @ + 1,
                               !.m_first_free_item = S.items[S.m_first_free_item].next],
               f |-> [f EXCEPT !.pc = "wrap"], fault |-> NoFault]
    ELSE IF f.pc = "wrap"
    THEN [S |-> intrusive_ptr_add_ref(unlink_item(S, f.item), f.item),
          f |-> [f EXCEPT !.pc = "done"], fault |-> NoFault]
    ELSE [S |-> S, f |-> f, fault |-> NoFault]

\* the orders in which the steps of two allocate() calls can follow each
\* other: at place k the thread schedule[k] takes its next step
Schedules == {sch \in [1..6 -> RaceThreads] : Cardinality({k \in 1..6 : sch[k] = 1}) = 3}

\* the two calls run in the order sch from place k on
RECURSIVE race_run(_, _, _, _)
race_run(B, F, sch, k) ==
    IF k > 6 THEN [B |-> B, F |-> F, fault |-> NoFault]
    ELSE LET t == sch[k]
             R == allocate_step(B[pool_of(t)], pool_of(t), F[t])
         IN IF R.fault # NoFault THEN [B |-> B, F |-> F, fault |-> R.fault]
            ELSE race_run([B EXCEPT ![pool_of(t)] = R.S], [F EXCEPT ![t] = R.f], sch, k + 1)

\* the frame of a thread that is not in allocate()
Elsewhere == [pc |-> "done", item |-> 0]

\* the threads of the set entering call allocate() on their pool at the same
\* time
RacingAllocate(entering, sch) ==
    /\ failed = NoFault /\ poolAlive /\ nImpls >= 1
    /\ \E R \in {race_run(impls, [t \in RaceThreads |->
                                     IF t \in entering THEN EntersAllocate ELSE Elsewhere],
                           sch, 1)} :
          IF R.fault # NoFault THEN Abort(R.fault)
          ELSE LET got == {t \in RaceThreads : R.F[t].item # 0}
               IN /\ held + Cardinality(got) <= MaxHeld
                  /\ impls' = R.B
                  /\ handles' = [q \in DOMAIN handles |-> [i \in ItemIds |->
                        handles[q][i]
                          + Cardinality({t \in got : pool_of(t) = q /\ R.F[t].item = i})]]
                  /\ held' = held + Cardinality(got)
                  /\ owed' = owed + Cardinality(got)
                  /\ UNCHANGED <<poolAlive, m_pool, nImpls, failed, args>>

\* the program makes its pools: boost_intrusive_pool(init_size, 0) once, for
\* both threads, or once for each thread
MakePools(n, init_size) ==
    /\ failed = NoFault /\ poolAlive /\ m_pool = 0 /\ nImpls = 0
    /\ init_precondition(init_size, 0, 0) = NoFault
    /\ Fits(NoImpl, init_size)
    /\ n \in ImplIds
    /\ impls' = [q \in DOMAIN impls |->
                    IF q <= n
                    THEN enlarge(impl_ctor(0, 0, "RECYCLE_METHOD_NONE"), q, init_size).S
                    ELSE impls[q]]
    /\ m_pool' = 1
    /\ nImpls' = n
    /\ args' = [init_size |-> init_size, enlarge_size |-> 0, max_size |-> 0]
    /\ UNCHANGED <<poolAlive, handles, held, failed, owed>>

\* two threads that allocate, alone or both at the same time, and copy and
\* drop handles one at a time
RaceNext ==
    \/ \E n \in {1, 2}, init_size \in 1..MaxItems : MakePools(n, init_size)
    \/ \E entering \in (SUBSET RaceThreads) \ {{}}, sch \in Schedules :
          RacingAllocate(entering, sch)
    \/ \E p \in ImplIds, i \in ItemIds : CopyHandle(p, i)
    \/ \E p \in ImplIds, i \in ItemIds : DropHandle(p, i)

RaceSpec == Init /\ [][RaceNext]_vars

\* the state of control block p is corrupted: the counters do not add up, or
\* the items in use are not as many as m_inuse_count says (one item was handed
\* out twice), or the free list is not made of the items that are not in use
Corrupted(p) ==
    LET S == impls[p]
    IN \/ unused_count(S) + inuse_count(S) # capacity(S)
       \/ inuse_count(S) # Cardinality({i \in Stored(S) : S.items[i].refcount > 0})
       \/ {FreeSeq(S)[k] : k \in 1..Len(FreeSeq(S))}
             # {i \in Stored(S) : S.items[i].refcount = 0}

\* C39: The pool has no internal synchronization: when two threads run
\* allocate and/or handle drops on the same pool without external locking, an
\* interleaving of their steps exists that reaches a corrupted state (the same
\* slot handed to both callers, or unused_count() + inuse_count() !=
\* capacity()); with one pool per thread no such state is reachable.
CorruptedOnlyIfShared ==
    \A p \in ImplIds : (impls[p].life = "alive" /\ Corrupted(p)) => nImpls = 1

\* C39, the case: the two threads shared a pool of two items and both were
\* handed the first one; the second one is on no list and in no hand
SameSlotHandedToBoth ==
    /\ nImpls = 1 /\ failed = NoFault
    /\ handles[1] = [i \in ItemIds |-> IF i = 1 THEN 2 ELSE 0] /\ held = 2
    /\ impls[1].items[1].refcount = 2
    /\ inuse_count(impls[1]) = 2 /\ unused_count(impls[1]) = 0
    /\ impls[1].m_first_free_item = 0 /\ impls[1].items[2].refcount = 0
    /\ Corrupted(1)

\* C39, the other case: each thread was handed the first item of its own pool
\* at the same time
EachServedByOwnPool ==
    /\ nImpls = 2 /\ failed = NoFault
    /\ handles[1][1] = 1 /\ handles[2][1] = 1
    /\ inuse_count(impls[1]) = 1 /\ inuse_count(impls[2]) = 1

====
